---- MODULE Spec2Model ----
(***************************************************************************)
(* KPI main service: the entry store (KpiEntryModel), the entry lifecycle  *)
(* (KpiEntryService.updateKpiEntryValues), the batch generator             *)
(* (generateDefaultKpiEntries, generateFinalReports) and the scoring       *)
(* evaluator (validateAndCalculateScores, calculateScore).                 *)
(*                                                                         *)
(* Every `await` on the entry store is a point where another request or    *)
(* job may run, so each service method is one action per store access:     *)
(* the code between two store accesses runs atomically (single-threaded    *)
(* event loop).  The member directory and the template store are not       *)
(* written by any modelled operation; their reads are folded into the      *)
(* step that precedes them.                                                *)
(*                                                                         *)
(* Strings that the code takes apart (role names) are sequences of tokens, *)
(* so that startsWith and replace are computed and not assumed.            *)
(***************************************************************************)
EXTENDS Integers, Sequences, FiniteSets, TLC

(***************************************************************************)
(* Bounds of the model.                                                    *)
(***************************************************************************)
\* calls (service method invocations) started in one behaviour
MaxOps == 3
\* calls that may be in flight (between two awaits) at the same time
MaxPending == 2
\* clock advances in one behaviour
MaxTicks == 2
\* days a month is divided in: the last one stands for the month's last
\* calendar day, the others for every day before it
DaysInMonth == 2
\* largest raw value / threshold / score drawn for the evaluator inputs
MaxNum == 3
\* largest number of months a rank request goes back
MaxOffset == 25
\* longest rule list drawn for the evaluator inputs
MaxRules == 3

(***************************************************************************)
(* Program constants.                                                      *)
(***************************************************************************)
AdminDepartment == "collector-office"
NodalPrefix == "nodalOfficer-"
HttpBadRequest == 400
HttpForbidden == 403
HttpNotFound == 404
HttpConflict == 409
\* the days of the month of the scheduled jobs: '0 2 2 * *' and '0 1 1 * *'
EntriesJobDay == 2
ReportsJobDay == 1
\* the years the manual triggers accept
MinTriggerYear == 2020
MaxTriggerYear == 2030
StartYear == 2024

VARIABLES
  entries,   \* the tbl_kpi_entries collection: a sequence, _id = index
  now,       \* the wall clock: [y, m, d]
  pending,   \* calls suspended at an await on the entry store
  resp,      \* what the step just taken did: the request and its outcome
  nOps,      \* calls started so far
  serving,   \* the process is up and accepts calls
  sweep,     \* the scheduled job in progress, if any
  scIn,      \* function harness: the input of the function evaluated
  scOut      \* function harness: its result, once it has run

vars == <<entries, now, pending, resp, nOps, serving, sweep, scIn, scOut>>

(***************************************************************************)
(* Role names.  'nodalOfficer-patwari' is <<"nodalOfficer-", "patwari">>.  *)
(***************************************************************************)
\* String.prototype.startsWith('nodalOfficer-')
startsWithNodal(role) == Len(role) >= 1 /\ role[1] = NodalPrefix

\* String.prototype.replace('nodalOfficer-', ''): removes the first
\* occurrence of the prefix, the others stay
RECURSIVE replaceNodal(_)
replaceNodal(role) ==
  IF role = <<>> THEN <<>>
  ELSE IF Head(role) = NodalPrefix THEN Tail(role)
  ELSE <<Head(role)>> \o replaceNodal(Tail(role))

(***************************************************************************)
(* The member directory (tbl_members), read-only here.  metadata.kpirefs   *)
(* is the list of jurisdiction references.                                 *)
(***************************************************************************)
Members ==
  << [userId |-> "u1", departmentSlug |-> "revenue", role |-> <<"patwari">>,
      kpirefs |-> <<"A", "B">>],
     [userId |-> "u2", departmentSlug |-> "revenue", role |-> <<"patwari">>,
      kpirefs |-> <<>>],
     [userId |-> "u3", departmentSlug |-> "revenue",
      role |-> <<NodalPrefix, "patwari">>, kpirefs |-> <<>>],
     [userId |-> "u4", departmentSlug |-> AdminDepartment,
      role |-> <<"collector">>, kpirefs |-> <<>>],
     [userId |-> "u5", departmentSlug |-> "revenue", role |-> <<"sdm">>,
      kpirefs |-> <<>>],
     [userId |-> "u6", departmentSlug |-> "revenue",
      role |-> <<NodalPrefix, "sdm">>, kpirefs |-> <<>>] >>

MemberIds == {Members[i].userId : i \in DOMAIN Members}

\* the callers of submitValues: a subject member, the supervising officers,
\* an administrator and one user with no member row
Actors == {"u0", "u1", "u3", "u4", "u6"}

\* MemberService.getMemberByUserId: {...member, user}; with no member row the
\* result is still an object, with neither role nor departmentSlug
getMemberByUserId(id) ==
  IF id \in MemberIds
  THEN LET i == CHOOSE j \in DOMAIN Members : Members[j].userId = id
           m == Members[i]
       IN [userId |-> m.userId, departmentSlug |-> m.departmentSlug,
           role |-> m.role, kpirefs |-> m.kpirefs, user |-> id]
  ELSE [user |-> id]

\* MemberService.getMembers(filters), each of department and role being
\* optional: the rows matching the filters given, in collection order
getMembersFiltered(filters) ==
  SelectSeq(Members,
            LAMBDA m :
              /\ "department" \in DOMAIN filters
                 => m.departmentSlug = filters.department
              /\ "role" \in DOMAIN filters => m.role = filters.role)

\* MemberService.getMembers({department, role}): the rows matching both, in
\* collection order
getMembers(department, role) ==
  SelectSeq(Members,
            LAMBDA m : m.departmentSlug = department /\ m.role = role)

\* filterExcludedMembers with the role test left out
filterExcludedMembersNoRole(members) ==
  SelectSeq(members, LAMBDA m : m.departmentSlug # AdminDepartment)

\* filterExcludedMembers
filterExcludedMembers(members) ==
  SelectSeq(members, LAMBDA m : ~startsWithNodal(m.role)
                                /\ m.departmentSlug # AdminDepartment)

(***************************************************************************)
(* Raw values are tagged with their JavaScript type (typeof).              *)
(***************************************************************************)
Num(n) == [t |-> "number", v |-> n]
Str(s) == [t |-> "string", v |-> s]
Bool(b) == [t |-> "boolean", v |-> b]

(***************************************************************************)
(* The template store (tbl_kpi_templates), read-only here.  A scoring rule *)
(* has min and max (a range) or value (an exact match or a threshold).     *)
(***************************************************************************)
Templates ==
  [ T1 |-> [departmentSlug |-> "revenue", role |-> <<"patwari">>,
            template |-> <<
              [name |-> "visits", kpiType |-> "score", isDynamic |-> FALSE,
               scoringRules |-> <<>>],
              [name |-> "disposal", kpiType |-> "percentage",
               isDynamic |-> TRUE,
               scoringRules |-> << [value |-> Num(2), score |-> 4],
                                   [value |-> Num(3), score |-> 7] >>] >>],
    T2 |-> [departmentSlug |-> "revenue", role |-> <<"sdm">>,
            template |-> <<
              [name |-> "visits", kpiType |-> "quantitative",
               isDynamic |-> TRUE,
               scoringRules |-> << [min |-> 0, max |-> 2, score |-> 1],
                                   [value |-> Num(3), score |-> 2] >>] >>],
    T3 |-> [departmentSlug |-> "revenue", role |-> <<NodalPrefix, "patwari">>,
            template |-> <<
              [name |-> "reviews", kpiType |-> "score", isDynamic |-> TRUE,
               scoringRules |-> <<>>] >>] ]

TemplateIds == DOMAIN Templates

\* KpiTemplateService.getKpiTemplate(id) finds a template (is not null)
templateFound(id) == id \in TemplateIds

(***************************************************************************)
(* Scoring evaluator.                                                      *)
(***************************************************************************)
isNumber(value) == value.t = "number"

\* JavaScript === on two raw values: same type and same value
strictEquals(a, b) == a.t = b.t /\ a.v = b.v

hasRange(rule) == "min" \in DOMAIN rule /\ "max" \in DOMAIN rule
hasValue(rule) == "value" \in DOMAIN rule

\* one step of the stable sort by (b.value - a.value): rule goes behind every
\* rule whose threshold is not smaller than its own
RECURSIVE insertDesc(_, _)
insertDesc(rule, sorted) ==
  IF sorted = <<>> THEN <<rule>>
  ELSE IF Head(sorted).value.v >= rule.value.v
       THEN <<Head(sorted)>> \o insertDesc(rule, Tail(sorted))
       ELSE <<rule>> \o sorted

\* [...rules].sort((a, b) => b.value - a.value): descending, stable
RECURSIVE sortDesc(_)
sortDesc(rules) ==
  IF rules = <<>> THEN <<>>
  ELSE insertDesc(rules[Len(rules)], sortDesc(SubSeq(rules, 1, Len(rules) - 1)))

\* the loop over the sorted threshold rules: the first one reached by value
RECURSIVE firstThreshold(_, _)
firstThreshold(n, sorted) ==
  IF sorted = <<>> THEN 0
  ELSE IF n >= Head(sorted).value.v THEN Head(sorted).score
  ELSE firstThreshold(n, Tail(sorted))

\* the loop over the rules in declared order: a range rule is tried as a
\* range only, every other rule as an exact match
RECURSIVE firstRule(_, _)
firstRule(value, rules) ==
  IF rules = <<>> THEN 0
  ELSE LET rule == Head(rules)
       IN IF hasRange(rule)
          THEN IF isNumber(value) /\ value.v >= rule.min /\ value.v <= rule.max
               THEN rule.score
               ELSE firstRule(value, Tail(rules))
          ELSE IF hasValue(rule) /\ strictEquals(value, rule.value)
               THEN rule.score
               ELSE firstRule(value, Tail(rules))

\* calculateScore with the percentage rules taken in declared order
calculateScoreUnsorted(value, scoringRules, kpiType) ==
  IF kpiType = "score" /\ isNumber(value) THEN value.v
  ELSE IF kpiType = "percentage" /\ isNumber(value)
       THEN firstThreshold(value.v, SelectSeq(scoringRules, hasValue))
       ELSE firstRule(value, scoringRules)

\* calculateScore with a score-kind item scored by its rules
calculateScoreByRules(value, scoringRules, kpiType) ==
  IF kpiType = "percentage" /\ isNumber(value)
  THEN firstThreshold(value.v, sortDesc(SelectSeq(scoringRules, hasValue)))
  ELSE firstRule(value, scoringRules)

\* KpiEntryService.calculateScore
calculateScore(value, scoringRules, kpiType) ==
  IF kpiType = "score" /\ isNumber(value) THEN value.v
  ELSE IF kpiType = "percentage" /\ isNumber(value)
       THEN firstThreshold(value.v, sortDesc(SelectSeq(scoringRules, hasValue)))
       ELSE firstRule(value, scoringRules)

(***************************************************************************)
(* Validation of a submission.  A submitted value is a record with name    *)
(* and value and, optionally, score, isByPassed and comments.  A failure   *)
(* is the APIError thrown: [ok |-> FALSE, status, title].                  *)
(***************************************************************************)
Failure(status, title) == [ok |-> FALSE, status |-> status, title |-> title]

isByPassed(value) == "isByPassed" \in DOMAIN value /\ value.isByPassed
hasScore(value) == "score" \in DOMAIN value

\* {...value, score}
withScore(value, score) ==
  [f \in DOMAIN value \cup {"score"} |->
     IF f = "score" THEN score ELSE value[f]]

\* templateItems.find((item) => item.name === name): its index, 0 if none
findItem(templateItems, name) ==
  IF \E i \in DOMAIN templateItems : templateItems[i].name = name
  THEN CHOOSE i \in DOMAIN templateItems :
         /\ templateItems[i].name = name
         /\ \A j \in 1..(i - 1) : templateItems[j].name # name
  ELSE 0

\* validateRequiredValues, mutated: dynamic items are required as well
missingNonDynamicKpisAll(values, templateItems) ==
  SelectSeq(templateItems,
            LAMBDA item : \A i \in DOMAIN values : values[i].name # item.name)

\* validateRequiredValues: the non-dynamic items no submitted value names
missingNonDynamicKpis(values, templateItems) ==
  SelectSeq(templateItems,
            LAMBDA item : /\ ~item.isDynamic
                          /\ \A i \in DOMAIN values : values[i].name # item.name)

\* the type test on a value that is not bypassed: TRUE when it throws
invalidValueType(value, item) ==
  IF item.kpiType \in {"quantitative", "percentage", "score"}
  THEN value.value.t # "number"
  ELSE IF item.kpiType = "binary" THEN value.value.t # "boolean"
  ELSE FALSE

\* the loop of validateAndCalculateScores with the unmatched values kept
\* (score 0) and not skipped
RECURSIVE scoreValuesKeep(_, _, _)
scoreValuesKeep(values, templateItems, done) ==
  IF values = <<>> THEN [ok |-> TRUE, values |-> done]
  ELSE LET value == Head(values)
           k == findItem(templateItems, value.name)
       IN IF k = 0
          THEN scoreValuesKeep(Tail(values), templateItems,
                               Append(done, withScore(value, 0)))
          ELSE IF isByPassed(value)
          THEN IF ~hasScore(value)
               THEN Failure(HttpBadRequest, "Missing score field")
               ELSE scoreValuesKeep(Tail(values), templateItems,
                                    Append(done, withScore(value, value.score)))
          ELSE IF invalidValueType(value, templateItems[k])
          THEN Failure(HttpBadRequest, "Invalid value type")
          ELSE scoreValuesKeep(Tail(values), templateItems,
                 Append(done,
                        withScore(value,
                                  calculateScore(value.value,
                                                 templateItems[k].scoringRules,
                                                 templateItems[k].kpiType))))

\* the loop of validateAndCalculateScores with the bypass branch left out:
\* every matched value goes through the type test and the evaluator
RECURSIVE scoreValuesEvaluated(_, _, _)
scoreValuesEvaluated(values, templateItems, done) ==
  IF values = <<>> THEN [ok |-> TRUE, values |-> done]
  ELSE LET value == Head(values)
           k == findItem(templateItems, value.name)
       IN IF k = 0 THEN scoreValuesEvaluated(Tail(values), templateItems, done)
          ELSE IF invalidValueType(value, templateItems[k])
          THEN Failure(HttpBadRequest, "Invalid value type")
          ELSE scoreValuesEvaluated(Tail(values), templateItems,
                 Append(done,
                        withScore(value,
                                  calculateScore(value.value,
                                                 templateItems[k].scoringRules,
                                                 templateItems[k].kpiType))))

\* the loop of validateAndCalculateScores over the submitted values, done
\* holding the values validated so far
RECURSIVE scoreValues(_, _, _)
scoreValues(values, templateItems, done) ==
  IF values = <<>> THEN [ok |-> TRUE, values |-> done]
  ELSE LET value == Head(values)
           k == findItem(templateItems, value.name)
       IN IF k = 0 THEN scoreValues(Tail(values), templateItems, done)
          ELSE IF isByPassed(value)
          THEN IF ~hasScore(value)
               THEN Failure(HttpBadRequest, "Missing score field")
               ELSE scoreValues(Tail(values), templateItems,
                                Append(done, withScore(value, value.score)))
          ELSE IF invalidValueType(value, templateItems[k])
          THEN Failure(HttpBadRequest, "Invalid value type")
          ELSE scoreValues(Tail(values), templateItems,
                 Append(done,
                        withScore(value,
                                  calculateScore(value.value,
                                                 templateItems[k].scoringRules,
                                                 templateItems[k].kpiType))))

\* KpiEntryService.validateAndCalculateScores
validateAndCalculateScores(values, templateItems) ==
  IF missingNonDynamicKpis(values, templateItems) # <<>>
  THEN Failure(HttpBadRequest, "Missing required values")
  ELSE scoreValues(values, templateItems, <<>>)

\* the reduce with the bypassed values left out of the sum
RECURSIVE sumScoresComputedOnly(_)
sumScoresComputedOnly(values) ==
  IF values = <<>> THEN 0
  ELSE sumScoresComputedOnly(SubSeq(values, 1, Len(values) - 1))
       + (IF isByPassed(values[Len(values)]) THEN 0
          ELSE values[Len(values)].score)

\* validatedValues.reduce((sum, value) => sum + value.score, 0)
RECURSIVE sumScores(_)
sumScores(values) ==
  IF values = <<>> THEN 0
  ELSE sumScores(SubSeq(values, 1, Len(values) - 1)) + values[Len(values)].score

(***************************************************************************)
(* Dates.  An instant is a day [y, m, d] and lies strictly inside it (no   *)
(* call runs at 00:00:00.000 sharp); new Date(y, m, d) is the start of a   *)
(* day.  Days are numbered through the months.                             *)
(***************************************************************************)
dayNumber(y, m, d) == (y * 12 + (m - 1)) * DaysInMonth + (d - 1)

\* new Date(year, month - 1, 1): 00:00 of the first day of the month
startDate(year, month) == dayNumber(year, month, 1)

\* new Date(year, month, 0): 00:00 of the last day of the month
endDate(year, month) == dayNumber(year, month, DaysInMonth)

\* createdAt: { $gte: day }, createdAt being inside its day
onOrAfter(t, day) == dayNumber(t.y, t.m, t.d) >= day

\* createdAt: { $lte: day }
onOrBefore(t, day) == dayNumber(t.y, t.m, t.d) < day

\* the reporting periods <<month, year>> requests are made for
Periods == {<<12, StartYear>>, <<1, StartYear + 1>>}

(***************************************************************************)
(* Requests drawn by the model.                                            *)
(***************************************************************************)
ValueLists ==
  { << [name |-> "visits", value |-> Num(2)] >>,
    << [name |-> "visits", value |-> Num(3)],
       [name |-> "disposal", value |-> Num(2)] >>,
    << [name |-> "disposal", value |-> Num(3)] >>,
    << [name |-> "visits", value |-> Num(1)],
       [name |-> "extra", value |-> Str("x")] >>,
    << [name |-> "visits", value |-> Str("x")] >>,
    << [name |-> "visits", value |-> Num(0), isByPassed |-> TRUE,
        score |-> 9] >>,
    << [name |-> "visits", value |-> Num(1), isByPassed |-> TRUE] >>,
    << [name |-> "visits", value |-> Str("x"), isByPassed |-> TRUE,
        score |-> 5],
       [name |-> "disposal", value |-> Num(3)] >> }

\* template ids requests name: the stored ones and one that is not stored
RequestedTemplates == TemplateIds \cup {"T0"}

(***************************************************************************)
(* Calls in flight.                                                        *)
(***************************************************************************)
Idle == [op |-> "idle"]
Slots == 1..MaxPending
busy == {s \in Slots : pending[s].op # "idle"}
freeSlot == CHOOSE s \in Slots \ busy : \A r \in Slots \ busy : s <= r

\* a new call may start: the budget of calls is not used up and fewer than
\* limit calls are in flight
mayStart(limit) ==
  /\ serving
  /\ nOps < MaxOps
  /\ Cardinality(busy) < limit
  /\ Cardinality(busy) < MaxPending

NoResponse == [op |-> "none"]

\* no scheduled job is in progress
NoSweep == [job |-> "none"]

(***************************************************************************)
(* The audit sink.  KpiAuditLogService.create is called without await and  *)
(* without a catch: when its save rejects, the rejection is unhandled and  *)
(* the process's 'unhandledRejection' handler closes the server and exits. *)
(* The step of a call that reaches KpiAuditLogService.create records in    *)
(* resp, as field audit, how the save of the record sent settles; the step *)
(* of a call that does not reach it has no such field.                     *)
(***************************************************************************)
\* how auditLog.save() settles
AuditOutcomes == {"saved", "failed"}

\* process.on('unhandledRejection'): server.close(() => process.exit(1))
afterAudit(audit) == IF audit = "failed" THEN FALSE ELSE serving

\* how a step ends: the call awaits the store, has thrown, or has returned
Awaiting(req, step) == req @@ [step |-> step, outcome |-> "pending"]
Thrown(req, step, failure) ==
  req @@ [step |-> step, outcome |-> "error", status |-> failure.status,
          title |-> failure.title]
Returned(req, step) == req @@ [step |-> step, outcome |-> "ok"]

(***************************************************************************)
(* generateDefaultKpiEntries                                               *)
(***************************************************************************)
\* the entries pushed for one member, with one entry only (tagged with the
\* first reference) for a member that has references
memberEntriesSingle(member, templateId, month, year, generatedBy) ==
  LET base == [kpiTemplateId |-> templateId, createdFor |-> member.userId,
               values |-> <<>>, totalScore |-> 0, status |-> "created",
               createdBy |-> generatedBy, month |-> month, year |-> year]
  IN IF Len(member.kpirefs) = 0 THEN <<base>>
     ELSE << [f \in DOMAIN base \cup {"kpirefs"} |->
                IF f = "kpirefs" THEN member.kpirefs[1] ELSE base[f]] >>

\* the entries pushed for one member
memberEntries(member, templateId, month, year, generatedBy) ==
  LET base == [kpiTemplateId |-> templateId, createdFor |-> member.userId,
               values |-> <<>>, totalScore |-> 0, status |-> "created",
               createdBy |-> generatedBy, month |-> month, year |-> year]
  IN IF Len(member.kpirefs) = 0 THEN <<base>>
     ELSE [i \in DOMAIN member.kpirefs |->
             [f \in DOMAIN base \cup {"kpirefs"} |->
                IF f = "kpirefs" THEN member.kpirefs[i] ELSE base[f]]]

\* entriesToCreate: the loop over filteredMembers
RECURSIVE entriesToCreate(_, _, _, _, _)
entriesToCreate(members, templateId, month, year, generatedBy) ==
  IF members = <<>> THEN <<>>
  ELSE memberEntries(Head(members), templateId, month, year, generatedBy)
       \o entriesToCreate(Tail(members), templateId, month, year, generatedBy)

\* the existing-entries query with no createdAt condition
existingEntriesAnyDate(templateId, month, year, members) ==
  {i \in DOMAIN entries :
     /\ entries[i].kpiTemplateId = templateId
     /\ entries[i].month = month
     /\ entries[i].year = year
     /\ \E k \in DOMAIN members : members[k].userId = entries[i].createdFor}

\* KpiEntryModel.find({kpiTemplateId, month, year, createdFor: {$in: ...},
\*                     createdAt: {$gte: startDate, $lte: endDate}})
existingEntries(templateId, month, year, members) ==
  {i \in DOMAIN entries :
     /\ entries[i].kpiTemplateId = templateId
     /\ entries[i].month = month
     /\ entries[i].year = year
     /\ \E k \in DOMAIN members : members[k].userId = entries[i].createdFor
     /\ onOrAfter(entries[i].createdAt, startDate(year, month))
     /\ onOrBefore(entries[i].createdAt, endDate(year, month))}

\* the part of generateDefaultKpiEntries up to the existing-entries query:
\* the error thrown, or the entries to insert
generateDefaultOutcome(templateId, month, year, generatedBy) ==
  IF ~templateFound(templateId)
  THEN Failure(HttpNotFound, "KPI Template Not Found")
  ELSE LET filteredMembers ==
             filterExcludedMembers(
               getMembers(Templates[templateId].departmentSlug,
                          Templates[templateId].role))
       IN IF existingEntries(templateId, month, year, filteredMembers) # {}
          THEN Failure(HttpConflict, "Entries Already Exist")
          ELSE [ok |-> TRUE,
                toCreate |-> entriesToCreate(filteredMembers, templateId,
                                             month, year, generatedBy),
                membersCount |-> Len(filteredMembers)]

\* generateDefaultKpiEntries from its call to the await of insertMany
GenerateCheck(limit) ==
  /\ mayStart(limit)
  /\ \E templateId \in RequestedTemplates, p \in Periods :
       LET out == generateDefaultOutcome(templateId, p[1], p[2], "system")
           req == [op |-> "generate", templateId |-> templateId,
                   month |-> p[1], year |-> p[2]]
       IN IF out.ok
          THEN /\ pending' = [pending EXCEPT ![freeSlot] =
                                req @@ [toCreate |-> out.toCreate,
                                        membersCount |-> out.membersCount]]
               /\ resp' = Awaiting(req, "check")
          ELSE /\ pending' = pending
               /\ resp' = Thrown(req, "check", out)
  /\ nOps' = nOps + 1
  /\ UNCHANGED <<entries, now, serving, sweep, scIn, scOut>>

\* a created entry as stored: timestamps: true sets createdAt
stamped(entry) ==
  [f \in DOMAIN entry \cup {"createdAt"} |->
     IF f = "createdAt" THEN now ELSE entry[f]]

\* the insert made one step with a second existing-entries query: a call
\* that finds entries by then throws and inserts nothing
GenerateInsertRechecked ==
  \E s \in Slots, audit \in AuditOutcomes :
    /\ pending[s].op = "generate"
    /\ LET req == [op |-> "generate", templateId |-> pending[s].templateId,
                   month |-> pending[s].month, year |-> pending[s].year]
           out == generateDefaultOutcome(pending[s].templateId,
                                         pending[s].month, pending[s].year,
                                         "system")
       IN IF out.ok
          THEN /\ entries' = entries \o [i \in DOMAIN pending[s].toCreate |->
                                           stamped(pending[s].toCreate[i])]
               /\ resp' = Returned(req @@ [entriesCount |->
                                             Len(pending[s].toCreate),
                                           membersCount |->
                                             pending[s].membersCount,
                                           audit |-> audit], "insert")
               /\ serving' = afterAudit(audit)
          ELSE /\ entries' = entries
               /\ resp' = Thrown(req, "insert", out)
               /\ serving' = serving
    /\ pending' = [pending EXCEPT ![s] = Idle]
    /\ UNCHANGED <<now, nOps, sweep, scIn, scOut>>

\* KpiEntryModel.insertMany(entriesToCreate) and the return
GenerateInsert ==
  \E s \in Slots, audit \in AuditOutcomes :
    /\ pending[s].op = "generate"
    /\ entries' = entries \o [i \in DOMAIN pending[s].toCreate |->
                                stamped(pending[s].toCreate[i])]
    /\ pending' = [pending EXCEPT ![s] = Idle]
    /\ resp' = Returned([op |-> "generate",
                          templateId |-> pending[s].templateId,
                          month |-> pending[s].month, year |-> pending[s].year,
                          entriesCount |-> Len(pending[s].toCreate),
                          membersCount |-> pending[s].membersCount,
                          audit |-> audit],
                         "insert")
    /\ serving' = afterAudit(audit)
    /\ UNCHANGED <<now, nOps, sweep, scIn, scOut>>

(***************************************************************************)
(* updateKpiEntryValues                                                    *)
(***************************************************************************)
\* a field of a directory record is there and truthy
truthyRole(member) == "role" \in DOMAIN member /\ member.role # <<>>
truthyDepartment(member) ==
  "departmentSlug" \in DOMAIN member /\ member.departmentSlug # ""

\* KpiEntryService.validateNodalOfficerPermission
validateNodalOfficerPermission(userRole, userDepartment, entry) ==
  IF userDepartment = AdminDepartment THEN TRUE
  ELSE IF ~startsWithNodal(userRole) THEN FALSE
  ELSE LET targetRole == replaceNodal(userRole)
           member == getMemberByUserId(entry.createdFor)
       IN "role" \in DOMAIN member /\ member.role = targetRole

\* the permission block of updateKpiEntryValues: TRUE when it throws
permissionDenied(updatedBy, entry) ==
  LET existingNodalOfficer == getMemberByUserId(updatedBy)
  IN /\ truthyRole(existingNodalOfficer)
     /\ truthyDepartment(existingNodalOfficer)
     /\ ~validateNodalOfficerPermission(existingNodalOfficer.role,
                                        existingNodalOfficer.departmentSlug,
                                        entry)

\* updateKpiEntryValues with the period test ahead of the status test
updateValuesOutcomePeriodFirst(entryId, values, updatedBy) ==
  IF entryId \notin DOMAIN entries
  THEN Failure(HttpNotFound, "KPI Entry Not Found")
  ELSE LET entry == entries[entryId]
       IN IF now.m # entry.month \/ now.y # entry.year
          THEN Failure(HttpBadRequest, "Update Period Expired")
          ELSE IF entry.status = "generated"
          THEN Failure(HttpBadRequest, "Entry Already Generated")
          ELSE IF permissionDenied(updatedBy, entry)
          THEN Failure(HttpForbidden, "Permission Denied")
          ELSE IF ~templateFound(entry.kpiTemplateId)
          THEN Failure(HttpNotFound, "KPI Template Not Found")
          ELSE LET r == validateAndCalculateScores(
                          values, Templates[entry.kpiTemplateId].template)
               IN IF ~r.ok THEN r
                  ELSE [ok |-> TRUE, values |-> r.values,
                        totalScore |-> sumScores(r.values)]

\* updateKpiEntryValues with the permission test ahead of the period test
updateValuesOutcomePermissionFirst(entryId, values, updatedBy) ==
  IF entryId \notin DOMAIN entries
  THEN Failure(HttpNotFound, "KPI Entry Not Found")
  ELSE LET entry == entries[entryId]
       IN IF entry.status = "generated"
          THEN Failure(HttpBadRequest, "Entry Already Generated")
          ELSE IF permissionDenied(updatedBy, entry)
          THEN Failure(HttpForbidden, "Permission Denied")
          ELSE IF now.m # entry.month \/ now.y # entry.year
          THEN Failure(HttpBadRequest, "Update Period Expired")
          ELSE IF ~templateFound(entry.kpiTemplateId)
          THEN Failure(HttpNotFound, "KPI Template Not Found")
          ELSE LET r == validateAndCalculateScores(
                          values, Templates[entry.kpiTemplateId].template)
               IN IF ~r.ok THEN r
                  ELSE [ok |-> TRUE, values |-> r.values,
                        totalScore |-> sumScores(r.values)]

\* updateKpiEntryValues with no test of the period
updateValuesOutcomeAnyPeriod(entryId, values, updatedBy) ==
  IF entryId \notin DOMAIN entries
  THEN Failure(HttpNotFound, "KPI Entry Not Found")
  ELSE LET entry == entries[entryId]
       IN IF entry.status = "generated"
          THEN Failure(HttpBadRequest, "Entry Already Generated")
          ELSE IF permissionDenied(updatedBy, entry)
          THEN Failure(HttpForbidden, "Permission Denied")
          ELSE IF ~templateFound(entry.kpiTemplateId)
          THEN Failure(HttpNotFound, "KPI Template Not Found")
          ELSE LET r == validateAndCalculateScores(
                          values, Templates[entry.kpiTemplateId].template)
               IN IF ~r.ok THEN r
                  ELSE [ok |-> TRUE, values |-> r.values,
                        totalScore |-> sumScores(r.values)]

\* the part of updateKpiEntryValues between findById and findByIdAndUpdate:
\* the error thrown, or the values and total to write
updateValuesOutcome(entryId, values, updatedBy) ==
  IF entryId \notin DOMAIN entries
  THEN Failure(HttpNotFound, "KPI Entry Not Found")
  ELSE LET entry == entries[entryId]
       IN IF entry.status = "generated"
          THEN Failure(HttpBadRequest, "Entry Already Generated")
          ELSE IF now.m # entry.month \/ now.y # entry.year
          THEN Failure(HttpBadRequest, "Update Period Expired")
          ELSE IF permissionDenied(updatedBy, entry)
          THEN Failure(HttpForbidden, "Permission Denied")
          ELSE IF ~templateFound(entry.kpiTemplateId)
          THEN Failure(HttpNotFound, "KPI Template Not Found")
          ELSE LET r == validateAndCalculateScores(
                          values, Templates[entry.kpiTemplateId].template)
               IN IF ~r.ok THEN r
                  ELSE [ok |-> TRUE, values |-> r.values,
                        totalScore |-> sumScores(r.values)]

\* updateKpiEntryValues from its call to the await of findByIdAndUpdate
SubmitRead(limit) ==
  /\ mayStart(limit)
  /\ \E entryId \in 1..(Len(entries) + 1), values \in ValueLists,
        updatedBy \in Actors :
       LET out == updateValuesOutcome(entryId, values, updatedBy)
           req == [op |-> "submit", entryId |-> entryId, values |-> values,
                   updatedBy |-> updatedBy]
       IN IF out.ok
          THEN /\ pending' = [pending EXCEPT ![freeSlot] =
                                req @@ [validatedValues |-> out.values,
                                        totalScore |-> out.totalScore]]
               /\ resp' = Awaiting(req, "read")
          ELSE /\ pending' = pending
               /\ resp' = Thrown(req, "read", out)
  /\ nOps' = nOps + 1
  /\ UNCHANGED <<entries, now, serving, sweep, scIn, scOut>>

\* the write of updateKpiEntryValues adding the new values to those the
\* entry holds, and not replacing them
SubmitWriteMerged ==
  \E s \in Slots :
    /\ pending[s].op = "submit"
    /\ entries' = [entries EXCEPT ![pending[s].entryId] =
                     [@ EXCEPT !.values = @ \o pending[s].validatedValues,
                               !.totalScore = pending[s].totalScore,
                               !.status = "initiated"]]
    /\ pending' = [pending EXCEPT ![s] = Idle]
    /\ resp' = Returned([op |-> "submit", entryId |-> pending[s].entryId,
                         values |-> pending[s].values,
                         updatedBy |-> pending[s].updatedBy], "write")
    /\ UNCHANGED <<now, nOps, serving, sweep, scIn, scOut>>

\* KpiEntryModel.findByIdAndUpdate(entryId, {values, totalScore,
\* status: 'initiated'}) and the return
SubmitWrite ==
  \E s \in Slots :
    /\ pending[s].op = "submit"
    /\ entries' = [entries EXCEPT ![pending[s].entryId] =
                     [@ EXCEPT !.values = pending[s].validatedValues,
                               !.totalScore = pending[s].totalScore,
                               !.status = "initiated"]]
    /\ pending' = [pending EXCEPT ![s] = Idle]
    /\ resp' = Returned([op |-> "submit", entryId |-> pending[s].entryId,
                         values |-> pending[s].values,
                         updatedBy |-> pending[s].updatedBy], "write")
    /\ UNCHANGED <<now, nOps, serving, sweep, scIn, scOut>>

(***************************************************************************)
(* generateFinalReports                                                    *)
(***************************************************************************)
\* the find of generateFinalReports with no condition on the status
openEntriesAnyStatus(templateId, month, year) ==
  {i \in DOMAIN entries :
     /\ entries[i].kpiTemplateId = templateId
     /\ entries[i].month = month
     /\ entries[i].year = year}

\* KpiEntryModel.find({kpiTemplateId, month, year,
\*                     status: {$in: ['created', 'initiated']}})
openEntries(templateId, month, year) ==
  {i \in DOMAIN entries :
     /\ entries[i].kpiTemplateId = templateId
     /\ entries[i].month = month
     /\ entries[i].year = year
     /\ entries[i].status \in {"created", "initiated"}}

\* generateFinalReports from its call to the await of Promise.all
FinalFind(limit) ==
  /\ mayStart(limit)
  /\ \E templateId \in RequestedTemplates, p \in Periods :
       LET found == openEntries(templateId, p[1], p[2])
           req == [op |-> "final", templateId |-> templateId,
                   month |-> p[1], year |-> p[2]]
       IN IF found = {}
          THEN /\ pending' = pending
               /\ resp' = Thrown(req, "find",
                                 Failure(HttpNotFound, "No Entries Found"))
          ELSE /\ pending' = [pending EXCEPT ![freeSlot] =
                                req @@ [ids |-> found, found |-> found]]
               /\ resp' = Awaiting(req, "find")
  /\ nOps' = nOps + 1
  /\ UNCHANGED <<entries, now, serving, sweep, scIn, scOut>>

\* the update of generateFinalReports, also resetting the total
sealedRescored(entry) ==
  [entry EXCEPT !.status = "generated", !.totalScore = 0]

\* the update {status: 'generated'} applied to an entry
sealed(entry) == [entry EXCEPT !.status = "generated"]

\* one KpiEntryModel.findByIdAndUpdate(entry._id, {status: 'generated'}) of
\* the Promise.all; the call returns with the last of them
FinalUpdate ==
  \E s \in Slots :
    /\ pending[s].op = "final"
    /\ \E id \in pending[s].ids :
         LET req == [op |-> "final", templateId |-> pending[s].templateId,
                     month |-> pending[s].month, year |-> pending[s].year,
                     entryId |-> id, found |-> pending[s].found]
         IN /\ entries' = [entries EXCEPT ![id] = sealed(@)]
            /\ IF pending[s].ids = {id}
               THEN \E audit \in AuditOutcomes :
                      /\ pending' = [pending EXCEPT ![s] = Idle]
                      /\ resp' = Returned(req @@ [audit |-> audit], "update")
                      /\ serving' = afterAudit(audit)
               ELSE /\ pending' = [pending EXCEPT ![s].ids = @ \ {id}]
                    /\ resp' = Awaiting(req, "update")
                    /\ serving' = serving
    /\ UNCHANGED <<now, nOps, sweep, scIn, scOut>>

(***************************************************************************)
(* getKpiEntriesStatisticsByDepartmentAndRoleWithMonthAndYear (rank).  A   *)
(* request is a record with the optional fields month, year (numbers, as   *)
(* Number() reads the query strings), templateId, department and role.     *)
(***************************************************************************)
NoFields == [f \in {} |-> TRUE]

abs(n) == IF n < 0 THEN 0 - n ELSE n

\* Math.ceil(n / 12) for n >= 0
ceilYears(n) == (n + 11) \div 12

\* n % 12 for n <= 0: the remainder has the sign of the dividend
remMonths(n) == 0 - (abs(n) % 12)

\* monthNum and yearNum as the head of the function computes them
resolvePeriod(req, currentMonth, currentYear) ==
  LET byMonth ==
        IF "month" \in DOMAIN req
        THEN IF req.month < 0
             THEN LET totalMonths == currentMonth - abs(req.month)
                  IN IF totalMonths <= 0
                     THEN [year |-> currentYear - ceilYears(abs(totalMonths)),
                           month |-> IF 12 + remMonths(totalMonths) = 0
                                     THEN 12
                                     ELSE 12 + remMonths(totalMonths)]
                     ELSE [year |-> currentYear, month |-> totalMonths]
             ELSE [year |-> IF "year" \in DOMAIN req THEN req.year
                            ELSE currentYear,
                   month |-> req.month]
        ELSE [year |-> IF "year" \in DOMAIN req THEN req.year
                       ELSE currentYear,
              month |-> currentMonth]
  IN IF "year" \in DOMAIN req
     THEN [byMonth EXCEPT !.year = IF req.year < 0 THEN currentYear + req.year
                                   ELSE req.year]
     ELSE byMonth

\* KpiEntryModel.find(kpiEntriesQuery): the ids of the entries of the month
\* and year, and of the template if one is given, in store order
kpiEntries(req, monthNum, yearNum) ==
  SelectSeq([i \in DOMAIN entries |-> i],
            LAMBDA i : /\ entries[i].month = monthNum
                       /\ entries[i].year = yearNum
                       /\ "templateId" \in DOMAIN req
                          => entries[i].kpiTemplateId = req.templateId)

\* memberEntries[0]: the first entry found for the member, 0 if none
firstEntryOf(found, userId) ==
  LET own == SelectSeq(found, LAMBDA i : entries[i].createdFor = userId)
  IN IF own = <<>> THEN 0 ELSE own[1]

\* entriesMap.get(userId).get(kpiref): the last entry found for the member
\* and the reference (a later set() replaces an earlier one), 0 if none
mappedEntryOf(found, userId, kpiref) ==
  LET own == SelectSeq(found,
                       LAMBDA i : /\ entries[i].createdFor = userId
                                  /\ "kpirefs" \in DOMAIN entries[i]
                                  /\ entries[i].kpirefs = kpiref)
  IN IF own = <<>> THEN 0 ELSE own[Len(own)]

\* the row pushed for a member and a reference, given the entry found
rankingRow(member, kpiref, id) ==
  LET base == [memberId |-> member.userId, memberRole |-> member.role,
               memberDepartment |-> member.departmentSlug,
               ranking |-> 0, kpiref |-> kpiref]
  IN IF id = 0
     THEN base @@ [totalScore |-> 0, hasEntry |-> FALSE,
                   status |-> "no-entry"]
     ELSE IF entries[id].status \in {"initiated", "generated"}
     THEN base @@ [totalScore |-> entries[id].totalScore, hasEntry |-> TRUE,
                   status |-> entries[id].status, entryId |-> id]
     ELSE base @@ [totalScore |-> 0, hasEntry |-> FALSE,
                   status |-> entries[id].status, entryId |-> id]

\* the rows pushed for one member: one with kpiref 'no-kpiref' when the
\* member has no reference, one per reference otherwise
memberRows(member, found) ==
  IF Len(member.kpirefs) = 0
  THEN << rankingRow(member, "no-kpiref", firstEntryOf(found, member.userId)) >>
  ELSE [k \in DOMAIN member.kpirefs |->
          rankingRow(member, member.kpirefs[k],
                     mappedEntryOf(found, member.userId, member.kpirefs[k]))]

\* filteredMembers.docs.forEach: the rows of all members, in member order
RECURSIVE rankingRows(_, _)
rankingRows(members, found) ==
  IF members = <<>> THEN <<>>
  ELSE memberRows(Head(members), found) \o rankingRows(Tail(members), found)

statusPriority(status) ==
  CASE status = "generated" -> 4
    [] status = "initiated" -> 3
    [] status = "created" -> 2
    [] status = "no-entry" -> 1
    [] OTHER -> 0

\* the comparator of the current-month sort is negative or zero for (a, b):
\* a stays ahead of b
staysAhead(a, b) ==
  IF statusPriority(a.status) # statusPriority(b.status)
  THEN statusPriority(a.status) > statusPriority(b.status)
  ELSE a.totalScore >= b.totalScore

\* one step of the stable sort with that comparator
RECURSIVE insertByStatus(_, _)
insertByStatus(row, sorted) ==
  IF sorted = <<>> THEN <<row>>
  ELSE IF staysAhead(Head(sorted), row)
       THEN <<Head(sorted)>> \o insertByStatus(row, Tail(sorted))
       ELSE <<row>> \o sorted

\* rankings.sort(by status priority, then by totalScore, both descending)
RECURSIVE sortByStatus(_)
sortByStatus(rows) ==
  IF rows = <<>> THEN <<>>
  ELSE insertByStatus(rows[Len(rows)],
                      sortByStatus(SubSeq(rows, 1, Len(rows) - 1)))

\* one step of the stable sort by (b.totalScore - a.totalScore)
RECURSIVE insertByScore(_, _)
insertByScore(row, sorted) ==
  IF sorted = <<>> THEN <<row>>
  ELSE IF Head(sorted).totalScore >= row.totalScore
       THEN <<Head(sorted)>> \o insertByScore(row, Tail(sorted))
       ELSE <<row>> \o sorted

\* generatedRankings with the sort left out: the rows in member order
sortByScoreLeftOut(rows) == rows

\* generatedRankings.sort((a, b) => b.totalScore - a.totalScore)
RECURSIVE sortByScore(_)
sortByScore(rows) ==
  IF rows = <<>> THEN <<>>
  ELSE insertByScore(rows[Len(rows)],
                     sortByScore(SubSeq(rows, 1, Len(rows) - 1)))

\* the current-month loop with every row that has an entry ranked
RECURSIVE countRanksHasEntry(_, _)
countRanksHasEntry(rows, rankingCounter) ==
  IF rows = <<>> THEN <<>>
  ELSE IF Head(rows).hasEntry
       THEN <<[Head(rows) EXCEPT !.ranking = rankingCounter]>>
            \o countRanksHasEntry(Tail(rows), rankingCounter + 1)
       ELSE <<[Head(rows) EXCEPT !.ranking = 0]>>
            \o countRanksHasEntry(Tail(rows), rankingCounter)

\* the current-month loop: rankingCounter++ for a generated row, 0 for the
\* others
RECURSIVE countRanks(_, _)
countRanks(rows, rankingCounter) ==
  IF rows = <<>> THEN <<>>
  ELSE IF Head(rows).status = "generated"
       THEN <<[Head(rows) EXCEPT !.ranking = rankingCounter]>>
            \o countRanks(Tail(rows), rankingCounter + 1)
       ELSE <<[Head(rows) EXCEPT !.ranking = 0]>>
            \o countRanks(Tail(rows), rankingCounter)

\* the other-month branch: the generated rows get their index + 1 in the
\* list of generated rows sorted by score, the others 0; the rows keep
\* their order
indexRanks(rows) ==
  LET generatedRankings ==
        sortByScore(SelectSeq(rows, LAMBDA r : r.status = "generated"))
      indexOf(r) == CHOOSE k \in DOMAIN generatedRankings :
                      /\ generatedRankings[k].memberId = r.memberId
                      /\ generatedRankings[k].kpiref = r.kpiref
  IN [k \in DOMAIN rows |->
        IF rows[k].status = "generated"
        THEN [rows[k] EXCEPT !.ranking = indexOf(rows[k])]
        ELSE [rows[k] EXCEPT !.ranking = 0]]

\* the rows as returned
rankings(rows, isCurrentMonth) ==
  IF isCurrentMonth THEN countRanks(sortByStatus(rows), 1)
  ELSE indexRanks(rows)

\* the statistics of the rows as returned: highestScore is the first row's
\* totalScore, lowestScore that of the last row that has an entry
statistics(rows) ==
  LET withEntries == SelectSeq(rows, LAMBDA r : r.hasEntry)
  IN [totalRankings |-> Len(rows),
      rankingsWithEntries |-> Len(withEntries),
      highestScore |-> IF Len(rows) > 0 THEN rows[1].totalScore ELSE 0,
      lowestScore |-> IF Len(withEntries) > 0
                      THEN withEntries[Len(withEntries)].totalScore
                      ELSE 0]

\* the function from its call to its return: the error thrown, or the
\* period, the rows and their statistics
rankOutcome(req) ==
  LET period == resolvePeriod(req, now.m, now.y)
      found == kpiEntries(req, period.month, period.year)
      members == filterExcludedMembers(getMembersFiltered(req))
  IN IF found = <<>>
     THEN Failure(HttpNotFound, "No KPI Entries Found")
     ELSE IF /\ "month" \in DOMAIN req /\ req.month < 0
             /\ \A k \in DOMAIN found : entries[found[k]].status # "generated"
     THEN Failure(HttpNotFound, "No Generated Reports Found")
     ELSE LET rows == rankings(rankingRows(members, found),
                               period.month = now.m /\ period.year = now.y)
          IN [ok |-> TRUE, monthNum |-> period.month,
              yearNum |-> period.year, rankings |-> rows,
              statistics |-> statistics(rows)]

\* the months and years asked for: the month before, thirteen months
\* before, January and December, this year and the next
RankMonths == {0 - 13, 0 - 1, 1, 12}
RankYears == {StartYear, StartYear + 1}

RankRequests ==
  {m @@ y @@ t @@ f :
     m \in {NoFields} \cup {[month |-> k] : k \in RankMonths},
     y \in {NoFields} \cup {[year |-> k] : k \in RankYears},
     t \in {NoFields, [templateId |-> "T1"]},
     f \in {NoFields,
            [department |-> "revenue", role |-> <<"patwari">>],
            [role |-> <<NodalPrefix, "patwari">>]}}

\* a rank call; it reads the entry store once
Rank(limit) ==
  /\ mayStart(limit)
  /\ \E q \in RankRequests :
       LET out == rankOutcome(q)
           req == q @@ [op |-> "rank"]
       IN resp' = IF out.ok
                  THEN Returned(req @@ [monthNum |-> out.monthNum,
                                        yearNum |-> out.yearNum,
                                        rankings |-> out.rankings,
                                        statistics |-> out.statistics],
                                "find")
                  ELSE Thrown(req, "find", out)
  /\ nOps' = nOps + 1
  /\ UNCHANGED <<entries, now, pending, serving, sweep, scIn, scOut>>

(***************************************************************************)
(* The scheduled jobs (initializeCronJobs).  A job reads the clock and the *)
(* templates, then calls the batch operation for each template in turn,    *)
(* each call inside its own try/catch.  sweep holds the job in progress:   *)
(* the templates still to do, those the operation was invoked for, and the *)
(* call suspended at an await.                                             *)
(***************************************************************************)
\* KpiTemplateService.getKpiTemplates({page: 1, limit: 1000}).docs
TemplateList == <<"T1", "T2", "T3">>

SweepJobs == {"entries", "reports"}
sweeping == sweep.job \in SweepJobs

\* the month and year a job passes to the batch operation
sweepPeriod(job) ==
  IF job = "entries" THEN [month |-> now.m, year |-> now.y]
  ELSE LET month == now.m - 1
       IN IF month = 0 THEN [month |-> 12, year |-> now.y - 1]
          ELSE [month |-> month, year |-> now.y]

\* a catch block that rethrows: the loop is left
afterRethrow(todo) == <<>>

\* the catch block of the loop logs the error; the loop goes on
afterCatch(todo) == Tail(todo)

\* the request a job's call is for
sweepRequest(op) ==
  [op |-> op, by |-> "cron", templateId |-> Head(sweep.todo),
   month |-> sweep.month, year |-> sweep.year]

\* the cron expression fires: the job reads the clock and the templates
SweepStart ==
  /\ serving
  /\ ~sweeping
  /\ sweep.job = "done" => sweep.ranOn # now
  /\ \E job \in SweepJobs :
       /\ now.d = (IF job = "entries" THEN EntriesJobDay ELSE ReportsJobDay)
       /\ sweep' = [job |-> job, month |-> sweepPeriod(job).month,
                    year |-> sweepPeriod(job).year, todo |-> TemplateList,
                    invoked |-> <<>>, call |-> Idle, ranOn |-> now]
       /\ resp' = Awaiting([op |-> "sweep", job |-> job], "start")
  /\ UNCHANGED <<entries, now, pending, nOps, serving, scIn, scOut>>

\* the entries job calls generateDefaultKpiEntries for the next template,
\* up to the await of insertMany or to the error it throws
SweepCheck ==
  /\ sweep.job = "entries"
  /\ sweep.call = Idle
  /\ sweep.todo # <<>>
  /\ LET templateId == Head(sweep.todo)
         out == generateDefaultOutcome(templateId, sweep.month, sweep.year,
                                       "system")
     IN IF out.ok
        THEN /\ sweep' = [sweep EXCEPT
                            !.invoked = Append(@, templateId),
                            !.call = [op |-> "generate",
                                      toCreate |-> out.toCreate,
                                      membersCount |-> out.membersCount]]
             /\ resp' = Awaiting(sweepRequest("generate"), "check")
        ELSE /\ sweep' = [sweep EXCEPT !.invoked = Append(@, templateId),
                                       !.todo = afterCatch(@)]
             /\ resp' = Thrown(sweepRequest("generate"), "check", out)
  /\ UNCHANGED <<entries, now, pending, nOps, serving, scIn, scOut>>

\* insertMany and the return of that call; the loop goes on
SweepInsert ==
  /\ sweep.job = "entries"
  /\ sweep.call # Idle
  /\ \E audit \in AuditOutcomes :
       /\ entries' = entries \o [i \in DOMAIN sweep.call.toCreate |->
                                   stamped(sweep.call.toCreate[i])]
       /\ sweep' = [sweep EXCEPT !.call = Idle, !.todo = Tail(@)]
       /\ resp' = Returned(sweepRequest("generate")
                           @@ [entriesCount |-> Len(sweep.call.toCreate),
                               membersCount |-> sweep.call.membersCount,
                               audit |-> audit], "insert")
       /\ serving' = afterAudit(audit)
  /\ UNCHANGED <<now, pending, nOps, scIn, scOut>>

\* the reports job calls generateFinalReports for the next template, up to
\* the await of Promise.all or to the error it throws
SweepFind ==
  /\ sweep.job = "reports"
  /\ sweep.call = Idle
  /\ sweep.todo # <<>>
  /\ LET templateId == Head(sweep.todo)
         found == openEntries(templateId, sweep.month, sweep.year)
     IN IF found = {}
        THEN /\ sweep' = [sweep EXCEPT !.invoked = Append(@, templateId),
                                       !.todo = afterCatch(@)]
             /\ resp' = Thrown(sweepRequest("final"), "find",
                               Failure(HttpNotFound, "No Entries Found"))
        ELSE /\ sweep' = [sweep EXCEPT
                            !.invoked = Append(@, templateId),
                            !.call = [op |-> "final", ids |-> found,
                                      found |-> found]]
             /\ resp' = Awaiting(sweepRequest("final"), "find")
  /\ UNCHANGED <<entries, now, pending, nOps, serving, scIn, scOut>>

\* one findByIdAndUpdate of that call; it returns with the last of them and
\* the loop goes on
SweepUpdate ==
  /\ sweep.job = "reports"
  /\ sweep.call # Idle
  /\ \E id \in sweep.call.ids :
       LET req == sweepRequest("final")
                  @@ [entryId |-> id, found |-> sweep.call.found]
       IN /\ entries' = [entries EXCEPT ![id] = sealed(@)]
          /\ IF sweep.call.ids = {id}
             THEN \E audit \in AuditOutcomes :
                    /\ sweep' = [sweep EXCEPT !.call = Idle, !.todo = Tail(@)]
                    /\ resp' = Returned(req @@ [audit |-> audit], "update")
                    /\ serving' = afterAudit(audit)
             ELSE /\ sweep' = [sweep EXCEPT !.call.ids = @ \ {id}]
                  /\ resp' = Awaiting(req, "update")
                  /\ serving' = serving
  /\ UNCHANGED <<now, pending, nOps, scIn, scOut>>

\* the loop has gone through the templates: the job logs its completion
SweepEnd ==
  /\ sweeping
  /\ sweep.call = Idle
  /\ sweep.todo = <<>>
  /\ sweep' = [job |-> "done", kind |-> sweep.job, ranOn |-> sweep.ranOn,
               invoked |-> sweep.invoked]
  /\ resp' = Returned([op |-> "sweep", job |-> sweep.job], "end")
  /\ UNCHANGED <<entries, now, pending, nOps, serving, scIn, scOut>>

\* a step of the job in progress
SweepStep ==
  SweepCheck \/ SweepInsert \/ SweepFind \/ SweepUpdate \/ SweepEnd

(***************************************************************************)
(* The manual triggers (CronHandler).  After validating the request they   *)
(* call KpiEntryService.generateMonthlyKpiEntries and                      *)
(* KpiEntryService.generateMonthlyReports; the class has no member of      *)
(* either name (its batch operations are generateDefaultKpiEntries and     *)
(* generateFinalReports), so the call throws a TypeError, which carries no *)
(* STATUS (0 here).  The handler rethrows from its async function: whether *)
(* the rejection reaches the error middleware or is left unhandled (and    *)
(* the process's 'unhandledRejection' handler closes the server) depends   *)
(* on the framework version, so both are possible.                         *)
(***************************************************************************)
\* req.body of a trigger: templateId may be missing, month may be out of
\* range
TriggerRequests ==
  {[templateId |-> t, month |-> p[1], year |-> p[2]] :
     t \in RequestedTemplates, p \in Periods \cup {<<13, StartYear>>}}
  \cup {[month |-> 12, year |-> StartYear]}

\* the validation both triggers start with: the error thrown, or ok
triggerValidation(body) ==
  IF "templateId" \notin DOMAIN body
  THEN Failure(HttpBadRequest, "Missing Required Fields")
  ELSE IF body.month < 1 \/ body.month > 12
  THEN Failure(HttpBadRequest, "Invalid Month")
  ELSE IF body.year < MinTriggerYear \/ body.year > MaxTriggerYear
  THEN Failure(HttpBadRequest, "Invalid Year")
  ELSE [ok |-> TRUE]

\* KpiEntryService.generateMonthlyKpiEntries(...) and
\* KpiEntryService.generateMonthlyReports(...): undefined is not a function
notAFunction == Failure(0, "TypeError")

\* what becomes of the process when a handler's promise rejects
afterRejection(handled) == IF handled THEN serving ELSE FALSE

\* CronHandler.triggerMonthlyEntries
TriggerMonthlyEntries(limit) ==
  /\ mayStart(limit)
  /\ \E body \in TriggerRequests, handled \in BOOLEAN :
       LET req == body @@ [op |-> "triggerEntries"]
           valid == triggerValidation(body)
       IN /\ resp' = Thrown(req, "trigger",
                            IF valid.ok THEN notAFunction ELSE valid)
          /\ serving' = afterRejection(handled)
  /\ nOps' = nOps + 1
  /\ UNCHANGED <<entries, now, pending, sweep, scIn, scOut>>

\* CronHandler.triggerMonthlyReports
TriggerMonthlyReports(limit) ==
  /\ mayStart(limit)
  /\ \E body \in TriggerRequests, handled \in BOOLEAN :
       LET req == body @@ [op |-> "triggerReports"]
           valid == triggerValidation(body)
       IN /\ resp' = Thrown(req, "trigger",
                            IF ~valid.ok THEN valid
                            ELSE IF ~templateFound(body.templateId)
                            THEN Failure(HttpNotFound, "Template Not Found")
                            ELSE notAFunction)
          /\ serving' = afterRejection(handled)
  /\ nOps' = nOps + 1
  /\ UNCHANGED <<entries, now, pending, sweep, scIn, scOut>>

(***************************************************************************)
(* The wall clock.                                                         *)
(***************************************************************************)
nextDay(t) ==
  IF t.d < DaysInMonth THEN [t EXCEPT !.d = t.d + 1]
  ELSE IF t.m < 12 THEN [y |-> t.y, m |-> t.m + 1, d |-> 1]
  ELSE [y |-> t.y + 1, m |-> 1, d |-> 1]

Tick ==
  /\ dayNumber(now.y, now.m, now.d) < dayNumber(StartYear, 12, 1) + MaxTicks
  /\ now' = nextDay(now)
  /\ resp' = NoResponse
  /\ UNCHANGED <<entries, pending, nOps, serving, sweep, scIn, scOut>>

(***************************************************************************)
(* The service: requests and jobs interleave at their awaits.              *)
(***************************************************************************)
NoScoreInput == [kpiType |-> "none"]
NoScore == [done |-> FALSE]

Init ==
  /\ entries = <<>>
  /\ now = [y |-> StartYear, m |-> 12, d |-> 1]
  /\ pending = [s \in Slots |-> Idle]
  /\ resp = NoResponse
  /\ nOps = 0
  /\ serving = TRUE
  /\ sweep = NoSweep
  /\ scIn = NoScoreInput
  /\ scOut = NoScore

Next ==
  \/ GenerateCheck(MaxPending)
  \/ GenerateInsert
  \/ SubmitRead(MaxPending)
  \/ SubmitWrite
  \/ FinalFind(MaxPending)
  \/ FinalUpdate
  \/ Rank(MaxPending)
  \/ Tick

Spec == Init /\ [][Next]_vars

(***************************************************************************)
(* The same service with no two calls overlapping: a call starts only when *)
(* none is in flight.                                                      *)
(***************************************************************************)
NextSeq ==
  \/ GenerateCheck(1)
  \/ GenerateInsert
  \/ SubmitRead(1)
  \/ SubmitWrite
  \/ FinalFind(1)
  \/ FinalUpdate
  \/ Rank(1)
  \/ Tick

SpecSeq == Init /\ [][NextSeq]_vars

(***************************************************************************)
(* The scheduled jobs, with generations asked for by hand in between.  The *)
(* event loop resumes a job at each await as long as the process is up.    *)
(***************************************************************************)
NextSweep ==
  \/ SweepStart
  \/ SweepCheck
  \/ SweepInsert
  \/ SweepFind
  \/ SweepUpdate
  \/ SweepEnd
  \/ GenerateCheck(1)
  \/ GenerateInsert
  \/ TriggerMonthlyEntries(1)
  \/ TriggerMonthlyReports(1)
  \/ Tick

\* the store is empty and all calls by hand but one have been made
InitSweep ==
  /\ entries = <<>>
  /\ now = [y |-> StartYear, m |-> 12, d |-> 1]
  /\ pending = [s \in Slots |-> Idle]
  /\ resp = NoResponse
  /\ nOps = MaxOps - 1
  /\ serving = TRUE
  /\ sweep = NoSweep
  /\ scIn = NoScoreInput
  /\ scOut = NoScore

SpecSweep ==
  InitSweep /\ [][NextSweep]_vars /\ WF_vars(serving /\ SweepStep)

(***************************************************************************)
(* The evaluator alone: calculateScore applied to every input of a bounded *)
(* set of values and rule lists.                                           *)
(***************************************************************************)
Numbers == 0..MaxNum
Scores == 1..MaxNum

\* threshold (or exact-match) rules and two range rules
ScoringRules ==
  {[value |-> Num(n), score |-> sc] : n \in 1..MaxNum, sc \in Scores}
  \cup {[min |-> 0, max |-> MaxNum, score |-> MaxNum],
        [min |-> 1, max |-> 1, score |-> 1]}

RECURSIVE seqsUpTo(_, _)
seqsUpTo(S, n) ==
  IF n = 0 THEN {<<>>}
  ELSE LET shorter == seqsUpTo(S, n - 1)
       IN shorter \cup {Append(q, x) : q \in shorter, x \in S}

\* range rules and exact-match rules, on numbers and on a string
MixedRules ==
  {[min |-> 0, max |-> 1, score |-> 1],
   [min |-> 1, max |-> MaxNum, score |-> 2],
   [value |-> Num(1), score |-> 3],
   [value |-> Num(MaxNum), score |-> 2],
   [value |-> Str("yes"), score |-> 1]}

\* the raw values of the other kinds: numbers, a string, a boolean
RawValues == {Num(n) : n \in Numbers} \cup {Str("yes"), Bool(TRUE)}

OtherKinds == {"score", "quantitative", "binary", "qualitative"}

ScoreInputs ==
  {[value |-> Num(n), scoringRules |-> rules, kpiType |-> "percentage"] :
     n \in Numbers, rules \in seqsUpTo(ScoringRules, MaxRules)}
  \cup
  {[value |-> v, scoringRules |-> rules, kpiType |-> kind] :
     v \in RawValues, rules \in seqsUpTo(MixedRules, MaxRules),
     kind \in OtherKinds}

InitScore ==
  /\ entries = <<>>
  /\ now = [y |-> StartYear, m |-> 12, d |-> 1]
  /\ pending = [s \in Slots |-> Idle]
  /\ resp = NoResponse
  /\ nOps = 0
  /\ serving = TRUE
  /\ sweep = NoSweep
  /\ scIn \in ScoreInputs
  /\ scOut = NoScore

ScoreEval ==
  /\ ~scOut.done
  /\ scOut' = [done |-> TRUE,
               score |-> calculateScore(scIn.value, scIn.scoringRules,
                                        scIn.kpiType)]
  /\ UNCHANGED <<entries, now, pending, resp, nOps, serving, sweep, scIn>>

NextScore == ScoreEval

SpecScore == InitScore /\ [][NextScore]_vars

(***************************************************************************)
(* The schedule: both jobs fire on their day and run to their end within   *)
(* it, from the first day of any month of the first year to the end of the *)
(* reports job of the month after, with one submission made by hand at any *)
(* point.                                                                  *)
(***************************************************************************)
\* today's job has run to its end
ranToday == sweep.job = "done" /\ sweep.ranOn = now

\* the clock moves on once today's job has run; it stops after the reports
\* job that has run over a store holding entries
TickOnSchedule ==
  /\ ranToday
  /\ ~(sweep.kind = "reports" /\ entries # <<>>)
  /\ now' = nextDay(now)
  /\ resp' = NoResponse
  /\ UNCHANGED <<entries, pending, nOps, serving, sweep, scIn, scOut>>

InitSchedule ==
  /\ entries = <<>>
  /\ now \in {[y |-> StartYear, m |-> k, d |-> 1] : k \in 1..12}
  /\ pending = [s \in Slots |-> Idle]
  /\ resp = NoResponse
  /\ nOps = MaxOps - 1
  /\ serving = TRUE
  /\ sweep = NoSweep
  /\ scIn = NoScoreInput
  /\ scOut = NoScore

NextSchedule ==
  \/ SweepStart
  \/ SweepCheck
  \/ SweepInsert
  \/ SweepFind
  \/ SweepUpdate
  \/ SweepEnd
  \/ SubmitRead(1)
  \/ SubmitWrite
  \/ TickOnSchedule

SpecSchedule ==
  /\ InitSchedule
  /\ [][NextSchedule]_vars
  /\ WF_vars(SweepStart)
  /\ WF_vars(serving /\ SweepStep)
  /\ WF_vars(TickOnSchedule)

(***************************************************************************)
(* The rank function alone, called once on a store that holds the entries  *)
(* generated in December of the first year for T1 and, possibly, T2: each  *)
(* entry as created or as written by a submission, and each template's     *)
(* entries sealed or not.  The call is made in that December (the current  *)
(* period) or in the January after (a past period).                        *)
(***************************************************************************)
\* the submissions that wrote the entries of those stores
RankSubmissions ==
  { << [name |-> "visits", value |-> Num(2)] >>,
    << [name |-> "visits", value |-> Num(3)],
       [name |-> "disposal", value |-> Num(2)] >>,
    << [name |-> "visits", value |-> Num(0), isByPassed |-> TRUE,
        score |-> 9] >> }

\* an entry after the write of a successful submission of values
submitted(entry, values) ==
  LET r == validateAndCalculateScores(
             values, Templates[entry.kpiTemplateId].template)
  IN [entry EXCEPT !.values = r.values, !.totalScore = sumScores(r.values),
                   !.status = "initiated"]

\* what was done to an entry after its creation: nothing, or a submission
RankChoices(templateId) ==
  {[made |-> FALSE]}
  \cup {[made |-> TRUE, values |-> vl] :
          vl \in {x \in RankSubmissions :
                    validateAndCalculateScores(
                      x, Templates[templateId].template).ok}}

\* the entries of a template generated on the first of that December, each
\* left as created or submitted to, and then all sealed or none
TemplateStores(templateId) ==
  LET members == filterExcludedMembers(
                   getMembers(Templates[templateId].departmentSlug,
                              Templates[templateId].role))
      created == entriesToCreate(members, templateId, 12, StartYear, "system")
      asStored(e) == [f \in DOMAIN e \cup {"createdAt"} |->
                        IF f = "createdAt"
                        THEN [y |-> StartYear, m |-> 12, d |-> 1]
                        ELSE e[f]]
      worked(e, c) == IF c.made THEN submitted(e, c.values) ELSE e
  IN {[i \in DOMAIN created |->
         IF seal THEN sealed(worked(asStored(created[i]), c[i]))
         ELSE worked(asStored(created[i]), c[i])] :
        c \in [DOMAIN created -> RankChoices(templateId)], seal \in BOOLEAN}

RankStores ==
  {a \o b : a \in TemplateStores("T1"),
            b \in {<<>>} \cup TemplateStores("T2")}

InitRank ==
  /\ entries \in RankStores
  /\ now \in {[y |-> StartYear, m |-> 12, d |-> 1],
              [y |-> StartYear + 1, m |-> 1, d |-> 1]}
  /\ pending = [s \in Slots |-> Idle]
  /\ resp = NoResponse
  /\ nOps = MaxOps - 1
  /\ serving = TRUE
  /\ sweep = NoSweep
  /\ scIn = NoScoreInput
  /\ scOut = NoScore

NextRank == Rank(1)

SpecRank == InitRank /\ [][NextRank]_vars

(***************************************************************************)
(* The period resolution alone: the head of the rank function applied to   *)
(* every current month, two current years and every relative request of a  *)
(* bounded set.                                                            *)
(***************************************************************************)
\* requests with a negative month, a negative year, or both
RelativeRequests ==
  {[month |-> 0 - n] : n \in 1..MaxOffset}
  \cup {[year |-> 0 - k] : k \in 1..2}
  \cup {[month |-> 0 - n, year |-> 0 - k] : n \in {1, 12}, k \in 1..2}

PeriodInputs ==
  {[kpiType |-> "period", req |-> q, currentMonth |-> c, currentYear |-> y] :
     q \in RelativeRequests, c \in 1..12, y \in RankYears}

InitPeriod ==
  /\ entries = <<>>
  /\ now = [y |-> StartYear, m |-> 12, d |-> 1]
  /\ pending = [s \in Slots |-> Idle]
  /\ resp = NoResponse
  /\ nOps = 0
  /\ serving = TRUE
  /\ sweep = NoSweep
  /\ scIn \in PeriodInputs
  /\ scOut = NoScore

PeriodEval ==
  /\ ~scOut.done
  /\ LET period == resolvePeriod(scIn.req, scIn.currentMonth,
                                 scIn.currentYear)
     IN scOut' = [done |-> TRUE, monthNum |-> period.month,
                  yearNum |-> period.year]
  /\ UNCHANGED <<entries, now, pending, resp, nOps, serving, sweep, scIn>>

NextPeriod == PeriodEval

SpecPeriod == InitPeriod /\ [][NextPeriod]_vars

(***************************************************************************)
(* Properties.                                                             *)
(***************************************************************************)
\* the step just taken is the first step of a submitValues call
submitRead(r) == r.op = "submit" /\ r.step = "read"
\* the step just taken is the write of a submitValues call
submitWrite(r) == r.op = "submit" /\ r.step = "write"
threw(r, status, title) ==
  r.outcome = "error" /\ r.status = status /\ r.title = title

statusRank(status) ==
  CASE status = "created" -> 1
    [] status = "initiated" -> 2
    [] status = "generated" -> 3

\* C2: in every step, no entry's status moves backward, and a generated
\* entry keeps its values and totalScore.
C2_StatusForwardOnly ==
  [][\A i \in DOMAIN entries :
       /\ statusRank(entries'[i].status) >= statusRank(entries[i].status)
       /\ entries[i].status = "generated"
          => /\ entries'[i].values = entries[i].values
             /\ entries'[i].totalScore = entries[i].totalScore]_vars

\* the entries of (template, month, year)
entriesOf(templateId, month, year) ==
  {i \in DOMAIN entries : /\ entries[i].kpiTemplateId = templateId
                          /\ entries[i].month = month
                          /\ entries[i].year = year}

\* the members a template's generation is for: those of its department and
\* role that are neither supervising officers nor of the administrative
\* department
eligible(templateId) ==
  {i \in DOMAIN Members :
     /\ Members[i].departmentSlug = Templates[templateId].departmentSlug
     /\ Members[i].role = Templates[templateId].role
     /\ Members[i].role[1] # NodalPrefix
     /\ Members[i].departmentSlug # AdminDepartment}

\* C3: a generateDefaultEntries call made while the store holds an entry of
\* its (template, month, year) for an eligible member fails with Conflict
\* (409), whatever the date.
C3_RegenerationRefused ==
  (/\ resp.op = "generate"
   /\ resp.step = "check"
   /\ \E i \in entriesOf(resp.templateId, resp.month, resp.year) :
        \E m \in eligible(resp.templateId) :
          Members[m].userId = entries[i].createdFor)
  => (resp.outcome = "error" /\ resp.status = HttpConflict)

\* the (template, member, reference or none, month, year) of an entry
entryKey(e) ==
  <<e.kpiTemplateId, e.createdFor,
    IF "kpirefs" \in DOMAIN e THEN <<e.kpirefs>> ELSE <<>>,
    e.month, e.year>>

\* C4: with no two calls overlapping, no two entries have the same
\* (template, member, reference or none, month, year).
C4_OneEntryPerTuple ==
  \A i, j \in DOMAIN entries :
    i # j => entryKey(entries[i]) # entryKey(entries[j])

RECURSIVE fanOut(_)
fanOut(S) ==
  IF S = {} THEN 0
  ELSE LET i == CHOOSE x \in S : TRUE
           n == Len(Members[i].kpirefs)
       IN (IF n = 0 THEN 1 ELSE n) + fanOut(S \ {i})

\* C5: a successful generateDefaultEntries appends, and only appends: one
\* entry without kpirefs per eligible member with no reference, one entry
\* per reference for the others (the sum over the eligible members of
\* max(1, number of references) in all), each in status created with empty
\* values, totalScore 0 and the requested template, month and year.
C5_GenerationFanOut ==
  [][(resp'.op = "generate" /\ resp'.outcome = "ok")
     => LET n == Len(entries)
            added == [k \in 1..(Len(entries') - n) |-> entries'[n + k]]
            of(i) == {k \in DOMAIN added :
                        added[k].createdFor = Members[i].userId}
        IN /\ Len(entries') >= n
           /\ \A k \in 1..n : entries'[k] = entries[k]
           /\ Len(added) = fanOut(eligible(resp'.templateId))
           /\ resp'.entriesCount = Len(added)
           /\ \A k \in DOMAIN added :
                /\ added[k].status = "created"
                /\ added[k].values = <<>>
                /\ added[k].totalScore = 0
                /\ added[k].kpiTemplateId = resp'.templateId
                /\ added[k].month = resp'.month
                /\ added[k].year = resp'.year
                /\ \E i \in eligible(resp'.templateId) : k \in of(i)
           /\ \A i \in eligible(resp'.templateId) :
                IF Members[i].kpirefs = <<>>
                THEN /\ Cardinality(of(i)) = 1
                     /\ \A k \in of(i) : "kpirefs" \notin DOMAIN added[k]
                ELSE /\ Cardinality(of(i)) = Len(Members[i].kpirefs)
                     /\ \A r \in DOMAIN Members[i].kpirefs :
                          \E k \in of(i) :
                            /\ "kpirefs" \in DOMAIN added[k]
                            /\ added[k].kpirefs = Members[i].kpirefs[r]]_vars

\* C5 witness: a generation for the template whose eligible members are one
\* with two references and one with none has just inserted three entries.
C5_Witness ==
  /\ resp.op = "generate"
  /\ resp.outcome = "ok"
  /\ resp.templateId = "T1"
  /\ resp.entriesCount = 3
  /\ Len(entries) = 3

\* the actor may update the entry: a member of the administrative
\* department, or the supervising officer of the role of the entry's subject
authorized(actor, entry) ==
  \E i \in DOMAIN Members :
    /\ Members[i].userId = actor
    /\ \/ Members[i].departmentSlug = AdminDepartment
       \/ \E j \in DOMAIN Members :
            /\ Members[j].userId = entry.createdFor
            /\ Members[i].role = <<NodalPrefix>> \o Members[j].role

\* C6: an entry is written by submitValues only for an authorized actor.
C6_OnlyAuthorizedMutate ==
  submitWrite(resp) => authorized(resp.updatedBy, entries[resp.entryId])

\* the names of a template's items
itemNames(templateId) ==
  {Templates[templateId].template[k].name :
     k \in DOMAIN Templates[templateId].template}

\* the item of that name
itemNamed(templateId, name) ==
  LET items == Templates[templateId].template
  IN items[CHOOSE k \in DOMAIN items : items[k].name = name]

\* C7: the write of a successful submitValues leaves the entry in status
\* initiated, holding exactly the submitted values whose name is a template
\* item's, in their order, each with the submitted score if bypassed and the
\* computed score otherwise; a write that stores the values an initiated
\* entry already holds changes nothing in the store.
C7_SubmitReplacesValues ==
  [][submitWrite(resp')
     => LET id == resp'.entryId
            e == entries'[id]
            t == e.kpiTemplateId
            kept == SelectSeq(resp'.values,
                              LAMBDA v : v.name \in itemNames(t))
        IN /\ e.status = "initiated"
           /\ Len(e.values) = Len(kept)
           /\ \A k \in DOMAIN kept :
                /\ DOMAIN e.values[k] = DOMAIN kept[k] \cup {"score"}
                /\ \A f \in DOMAIN kept[k] \ {"score"} :
                     e.values[k][f] = kept[k][f]
                /\ e.values[k].score =
                     IF "isByPassed" \in DOMAIN kept[k] /\ kept[k].isByPassed
                     THEN kept[k].score
                     ELSE calculateScore(kept[k].value,
                                         itemNamed(t, kept[k].name).scoringRules,
                                         itemNamed(t, kept[k].name).kpiType)
           /\ \A i \in DOMAIN entries : i # id => entries'[i] = entries[i]
           /\ (entries[id].status = "initiated"
               /\ entries[id].values = e.values) => entries' = entries]_vars

\* C7 witness: a submission with a value that matches no template item has
\* just been written, without that value.
C7_Witness ==
  /\ submitWrite(resp)
  /\ Len(resp.values) = 2
  /\ \E k \in DOMAIN resp.values : resp.values[k].name = "extra"
  /\ Len(entries[resp.entryId].values) = 1
  /\ entries[resp.entryId].status = "initiated"

\* the sum of the scores of the values at the positions in S
RECURSIVE scoreSum(_, _)
scoreSum(values, S) ==
  IF S = {} THEN 0
  ELSE LET k == CHOOSE x \in S : TRUE
       IN values[k].score + scoreSum(values, S \ {k})

\* C8: every entry's totalScore is the sum of the scores of its values.
C8_TotalIsSum ==
  \A i \in DOMAIN entries :
    entries[i].totalScore = scoreSum(entries[i].values,
                                     DOMAIN entries[i].values)

\* C8 witness: an entry holds a bypassed value, whose score is its total.
C8_Witness ==
  \E i \in DOMAIN entries :
    /\ entries[i].values # <<>>
    /\ \E k \in DOMAIN entries[i].values :
         /\ "isByPassed" \in DOMAIN entries[i].values[k]
         /\ entries[i].values[k].score = 9
    /\ entries[i].totalScore = 9

\* the errors updateKpiEntryValues throws before it validates the values
EarlierErrors ==
  {"KPI Entry Not Found", "Entry Already Generated", "Update Period Expired",
   "Permission Denied", "KPI Template Not Found"}

\* some non-dynamic item of the template is not among the submitted names
missesRequired(templateId, values) ==
  \E name \in itemNames(templateId) :
    /\ ~itemNamed(templateId, name).isDynamic
    /\ \A k \in DOMAIN values : values[k].name # name

\* some dynamic item of the template is not among the submitted names
missesDynamic(templateId, values) ==
  \E name \in itemNames(templateId) :
    /\ itemNamed(templateId, name).isDynamic
    /\ \A k \in DOMAIN values : values[k].name # name

\* every submitted value of a template item has the type of the item's
\* kind, or is bypassed with a score
wellTyped(templateId, values) ==
  \A k \in DOMAIN values :
    values[k].name \in itemNames(templateId)
    => IF "isByPassed" \in DOMAIN values[k] /\ values[k].isByPassed
       THEN "score" \in DOMAIN values[k]
       ELSE LET kind == itemNamed(templateId, values[k].name).kpiType
            IN /\ kind \in {"quantitative", "percentage", "score"}
                  => values[k].value.t = "number"
               /\ kind = "binary" => values[k].value.t = "boolean"

reached(n, rules) ==
  {k \in DOMAIN rules : "value" \in DOMAIN rules[k] /\ rules[k].value.v <= n}

\* among them, those with the largest threshold
closest(n, rules) ==
  {k \in reached(n, rules) :
     \A j \in reached(n, rules) : rules[j].value.v <= rules[k].value.v}

\* C10 (as amended): for a percentage item the score is 0 when the value is
\* below every threshold, and otherwise the score of the rule with the
\* largest threshold <= value; when several rules share that threshold it is
\* the first of them in declared order.
C10_PercentageThreshold ==
  (scOut.done /\ scIn.kpiType = "percentage")
  => LET n == scIn.value.v
         rules == scIn.scoringRules
         best == closest(n, rules)
     IN IF best = {} THEN scOut.score = 0
        ELSE scOut.score =
               rules[CHOOSE k \in best : \A j \in best : k <= j].score

\* C10 witness: the value lies between two thresholds declared in ascending
\* order, and the score is that of the lower threshold's rule.
C10_Witness ==
  /\ scOut.done
  /\ scIn.kpiType = "percentage"
  /\ scIn.value = Num(2)
  /\ scIn.scoringRules = << [value |-> Num(1), score |-> 1],
                            [value |-> Num(2), score |-> 2],
                            [value |-> Num(3), score |-> 3] >>
  /\ scOut.score = 2

\* the rule lists with the same rules in another order
reorderings(rules) ==
  {[k \in DOMAIN rules |-> rules[p[k]]] :
     p \in {q \in [DOMAIN rules -> DOMAIN rules] :
              \A a, b \in DOMAIN rules : a # b => q[a] # q[b]}}

\* C10 as stated: the score is that of whichever rule has the largest
\* threshold <= value (0 if none) and is the same for every order of the
\* rules.
C10_Original ==
  (scOut.done /\ scIn.kpiType = "percentage")
  => LET n == scIn.value.v
         rules == scIn.scoringRules
         best == closest(n, rules)
     IN /\ best = {} => scOut.score = 0
        /\ \A k \in best : scOut.score = rules[k].score
        /\ \A other \in reorderings(rules) :
             calculateScore(scIn.value, other, scIn.kpiType) = scOut.score

\* C11: for a score-kind item the score of a numeric value is the value
\* itself, whatever the rule list.
C11_ScoreKindIsValue ==
  (scOut.done /\ scIn.kpiType = "score" /\ scIn.value.t = "number")
  => scOut.score = scIn.value.v

\* C11 witness: a score-kind value that an exact rule and a range rule of
\* another score both match has been scored as itself.
C11_Witness ==
  /\ scOut.done
  /\ scIn.kpiType = "score"
  /\ scIn.value = Num(1)
  /\ scIn.scoringRules = << [value |-> Num(1), score |-> 3],
                            [min |-> 1, max |-> MaxNum, score |-> 2] >>
  /\ scOut.score = 1

\* the positions of the range rules the value lies in
rangeMatches(value, rules) ==
  {k \in DOMAIN rules :
     /\ "min" \in DOMAIN rules[k] /\ "max" \in DOMAIN rules[k]
     /\ value.t = "number"
     /\ rules[k].min <= value.v /\ value.v <= rules[k].max}

\* the positions of the exact-match rules whose value is the value
exactMatches(value, rules) ==
  {k \in DOMAIN rules :
     /\ ~("min" \in DOMAIN rules[k] /\ "max" \in DOMAIN rules[k])
     /\ "value" \in DOMAIN rules[k]
     /\ rules[k].value.t = value.t
     /\ rules[k].value.v = value.v}

least(S) == CHOOSE k \in S : \A j \in S : k <= j

\* C20: for a quantitative, binary or qualitative item the score is that of
\* the first range rule the value lies in, if there is one; if there is
\* none, that of the first exact-match rule equal to the value; and 0
\* otherwise.
C20_RangeThenExact ==
  (scOut.done /\ scIn.kpiType \in {"quantitative", "binary", "qualitative"})
  => LET ranges == rangeMatches(scIn.value, scIn.scoringRules)
         exacts == exactMatches(scIn.value, scIn.scoringRules)
     IN scOut.score =
          IF ranges # {} THEN scIn.scoringRules[least(ranges)].score
          ELSE IF exacts # {} THEN scIn.scoringRules[least(exacts)].score
          ELSE 0

\* the step just taken is the find of a generateFinalReports call
finalFind(r) == r.op = "final" /\ r.step = "find"
\* the step just taken is an update of a generateFinalReports call
finalUpdate(r) == r.op = "final" /\ r.step = "update"

\* the entries of (template, month, year) in status created or initiated
unsealedOf(templateId, month, year) ==
  {i \in entriesOf(templateId, month, year) :
     entries[i].status \in {"created", "initiated"}}

C14_FinalReportsFrame ==
  [][/\ (finalFind(resp') /\ resp'.outcome = "pending")
        => /\ entries' = entries
           /\ \E s \in Slots :
                /\ pending[s] = Idle
                /\ pending'[s].found =
                     unsealedOf(resp'.templateId, resp'.month, resp'.year)
                /\ pending'[s].ids = pending'[s].found
                /\ pending'[s].found # {}
     /\ finalUpdate(resp')
        => LET id == resp'.entryId
           IN /\ DOMAIN entries' = DOMAIN entries
              /\ \A i \in DOMAIN entries : i # id => entries'[i] = entries[i]
              /\ entries'[id].status = "generated"
              /\ DOMAIN entries'[id] = DOMAIN entries[id]
              /\ \A f \in DOMAIN entries[id] \ {"status"} :
                   entries'[id][f] = entries[id][f]
              /\ \E s \in Slots :
                   /\ pending[s].op = "final"
                   /\ pending[s].templateId = resp'.templateId
                   /\ id \in pending[s].ids
                   /\ pending[s].ids \subseteq pending[s].found
                   /\ IF pending[s].ids = {id}
                      THEN resp'.outcome = "ok" /\ pending'[s] = Idle
                      ELSE /\ resp'.outcome = "pending"
                           /\ pending'[s].ids = pending[s].ids \ {id}
                           /\ pending'[s].found = pending[s].found]_vars

\* C14 witness: a call that found three entries has returned; one of them
\* had values, and has them still.
C14_Witness ==
  /\ finalUpdate(resp)
  /\ resp.outcome = "ok"
  /\ Cardinality(resp.found) = 3
  /\ \A i \in resp.found : entries[i].status = "generated"
  /\ \E i \in resp.found :
       entries[i].values # <<>> /\ entries[i].totalScore > 0

\* the wall-clock month and year are not the entry's
outOfPeriod(entry) == now.m # entry.month \/ now.y # entry.year

C16_AuditFailureSwallowed ==
  (/\ resp.op \in {"generate", "final"}
   /\ resp.outcome = "ok"
   /\ resp.audit = "failed")
  => serving

\* the step just taken is a rank call that returned its rows
ranked(r) == r.op = "rank" /\ r.outcome = "ok"

\* C12: in every result of rank a row with a nonzero rank has status
\* generated: initiated, created and no-entry rows have rank 0.
C12_OnlyGeneratedRanked ==
  ranked(resp)
  => \A k \in DOMAIN resp.rankings :
       resp.rankings[k].ranking # 0 => resp.rankings[k].status = "generated"

\* C12 witness: a result for a period before the current one has a ranked
\* generated row and an unranked row of another status.
C12_Witness ==
  /\ ranked(resp)
  /\ resp.monthNum = 12 /\ resp.yearNum = StartYear
  /\ now.m = 1
  /\ \E k \in DOMAIN resp.rankings :
       /\ resp.rankings[k].status = "generated"
       /\ resp.rankings[k].ranking = 1
  /\ \E k \in DOMAIN resp.rankings :
       /\ resp.rankings[k].status # "generated"
       /\ resp.rankings[k].ranking = 0

\* the period is strictly before the wall-clock month
beforeNow(period) ==
  \/ period.year < now.y
  \/ period.year = now.y /\ period.month < now.m

\* the entries a rank request is about: those of the period and, if a
\* template is named, of the template
rankedEntries(r, period) ==
  {i \in DOMAIN entries :
     /\ entries[i].month = period.month
     /\ entries[i].year = period.year
     /\ "templateId" \in DOMAIN r => entries[i].kpiTemplateId = r.templateId}

\* C18: a rank call whose period is before the current month, asked for by
\* offset or by month and year, fails with NotFound (404) when no entry of
\* the period is generated.
C18_PastNeedsGenerated ==
  (/\ resp.op = "rank"
   /\ beforeNow(resolvePeriod(resp, now.m, now.y))
   /\ \A i \in rankedEntries(resp, resolvePeriod(resp, now.m, now.y)) :
        entries[i].status # "generated")
  => (resp.outcome = "error" /\ resp.status = HttpNotFound)

\* the user is a member of the administrative department or a supervising
\* officer
excludedMember(userId) ==
  \E m \in DOMAIN Members :
    /\ Members[m].userId = userId
    /\ \/ Members[m].departmentSlug = AdminDepartment
       \/ Members[m].role[1] = NodalPrefix

\* C19: no entry in the store has a member of the administrative department
\* or a supervising officer as its subject, and no row of a rank result is
\* for such a member.
C19_ExcludedMembers ==
  /\ \A i \in DOMAIN entries : ~excludedMember(entries[i].createdFor)
  /\ ranked(resp)
     => \A k \in DOMAIN resp.rankings :
          ~excludedMember(resp.rankings[k].memberId)

\* C19 witness: a generation for the template of the supervising officers'
\* role has returned, having inserted nothing.
C19_Witness ==
  /\ resp.op = "generate"
  /\ resp.outcome = "ok"
  /\ resp.templateId = "T3"
  /\ resp.entriesCount = 0
  /\ excludedMember("u3")

\* the step just taken is a job's call that threw
sweepCallThrew(r) ==
  /\ r.op \in {"generate", "final"}
  /\ "by" \in DOMAIN r
  /\ r.outcome = "error"

matchedValues(templateId, values) ==
  SelectSeq(values, LAMBDA v : v.name \in itemNames(templateId))

\* the value is declared bypassed
bypassed(v) == "isByPassed" \in DOMAIN v /\ v.isByPassed

\* C21: a submitted value declared bypassed that names a template item is
\* stored with the score the caller gave, whatever its raw value and the
\* item's kind and rules, and that score is part of the entry's total; a
\* submission holding such a value with no score field fails, and the
\* store is left as it was.
C21_BypassVerbatim ==
  [][/\ submitWrite(resp')
        => LET e == entries'[resp'.entryId]
               kept == matchedValues(e.kpiTemplateId, resp'.values)
           IN /\ Len(e.values) = Len(kept)
              /\ \A k \in DOMAIN kept :
                   bypassed(kept[k])
                   => /\ e.values[k].score = kept[k].score
                      /\ e.values[k].value = kept[k].value
                      /\ e.totalScore
                           = kept[k].score
                             + scoreSum(e.values, DOMAIN e.values \ {k})
     /\ (/\ submitRead(resp')
         /\ resp'.entryId \in DOMAIN entries
         /\ \E k \in DOMAIN resp'.values :
              /\ bypassed(resp'.values[k])
              /\ "score" \notin DOMAIN resp'.values[k]
              /\ resp'.values[k].name
                   \in itemNames(entries[resp'.entryId].kpiTemplateId))
        => /\ resp'.outcome = "error"
           /\ entries' = entries
           /\ pending' = pending]_vars

\* C21 witness: a bypassed value whose raw value is a string has just been
\* written with the caller's score to an item of a numeric kind that has
\* rules, next to a computed value, and the total holds both.
C21_Witness ==
  /\ submitWrite(resp)
  /\ LET e == entries[resp.entryId]
     IN /\ Len(e.values) = 2
        /\ bypassed(e.values[1])
        /\ e.values[1].value = Str("x")
        /\ e.values[1].score = 5
        /\ ~bypassed(e.values[2])
        /\ e.values[2].score = 7
        /\ e.totalScore = 12

\* the calendar month n months before month c of year y
monthsBefore(c, y, n) ==
  [month |-> ((c - n - 1) % 12) + 1, year |-> y + ((c - n - 1) \div 12)]

\* C22: a request with month = -N and no year resolves to the calendar
\* month N months before the current one, across any number of year
\* boundaries; a request with year = -K resolves to the year K years before
\* the current one.
C22_OffsetResolves ==
  scOut.done
  => /\ ("month" \in DOMAIN scIn.req /\ "year" \notin DOMAIN scIn.req)
        => LET want == monthsBefore(scIn.currentMonth, scIn.currentYear,
                                    0 - scIn.req.month)
           IN scOut.monthNum = want.month /\ scOut.yearNum = want.year
     /\ "year" \in DOMAIN scIn.req
        => scOut.yearNum = scIn.currentYear + scIn.req.year

\* the largest number of a non-empty set
largest(S) == CHOOSE x \in S : \A z \in S : z <= x

\* C23: in the summary of a rank result, under either policy, highestScore
\* is the largest totalScore of the rows and lowestScore is the smallest
\* totalScore of the rows that have an entry.
C23_SummaryExtremes ==
  ranked(resp)
  => LET rows == resp.rankings
         all == {rows[k].totalScore : k \in DOMAIN rows}
         own == {rows[k].totalScore : k \in {j \in DOMAIN rows :
                                                rows[j].hasEntry}}
     IN /\ all # {} => resp.statistics.highestScore = largest(all)
        /\ own # {} => resp.statistics.lowestScore = least(own)

\* the positions of the rows of a rank result that have status generated
generatedRows(rows) == {k \in DOMAIN rows : rows[k].status = "generated"}

\* C24: in every rank result, under either policy, the rows with status
\* generated carry the ranks 1..k, k being their number, each rank once, and
\* of two generated rows the one with the strictly greater totalScore has
\* the strictly smaller rank.
C24_GeneratedRanksDense ==
  ranked(resp)
  => LET rows == resp.rankings
         gen == generatedRows(rows)
     IN /\ {rows[k].ranking : k \in gen} = 1..Cardinality(gen)
        /\ \A j, k \in gen : j # k => rows[j].ranking # rows[k].ranking
        /\ \A j, k \in gen :
             rows[j].totalScore > rows[k].totalScore
             => rows[j].ranking < rows[k].ranking

\* C24 witness: a past-period result with three generated rows of different
\* totals, the first of them in the list not having the greatest.
C24_Witness ==
  /\ ranked(resp)
  /\ ~(resp.monthNum = now.m /\ resp.yearNum = now.y)
  /\ LET rows == resp.rankings
         gen == generatedRows(rows)
     IN /\ Cardinality(gen) >= 3
        /\ \A j, k \in gen : j # k => rows[j].totalScore # rows[k].totalScore
        /\ \E j, k \in gen : j < k /\ rows[j].totalScore < rows[k].totalScore
        /\ \E k \in DOMAIN rows : rows[k].status = "initiated"

\* the step just taken is the insert of a generateDefaultEntries call
generateInsert(r) == r.op = "generate" /\ r.step = "insert"

\* the calls in flight that have passed the existing-entries check for the
\* template, month and year
passedCheck(templateId, month, year) ==
  {s \in Slots : /\ pending[s].op = "generate"
                 /\ pending[s].templateId = templateId
                 /\ pending[s].month = month
                 /\ pending[s].year = year}

\* C25: the existing-entries check is not atomic with the insert.  A call
\* that has passed the check inserts all the entries it prepared, whatever
\* the store holds by then, and leaves every other call in flight as it
\* is: of two calls for the same (template, month, year) that have both
\* passed the check, the second to insert duplicates the entries of the
\* first.
C25_CheckNotAtomic ==
  [][generateInsert(resp')
     => /\ resp'.outcome = "ok"
        /\ Len(entries') = Len(entries) + resp'.entriesCount
        /\ SubSeq(entries', 1, Len(entries)) = entries
        /\ \A s \in passedCheck(resp'.templateId, resp'.month, resp'.year) :
             \/ pending'[s] = pending[s]
             \/ /\ pending'[s] = Idle
                /\ \A i \in DOMAIN pending[s].toCreate :
                     entryKey(entries'[Len(entries) + i])
                       = entryKey(pending[s].toCreate[i])
        /\ (\E s \in passedCheck(resp'.templateId, resp'.month,
                                  resp'.year) : pending'[s] = pending[s])
           => \A i \in (Len(entries) + 1)..Len(entries') :
                \E s \in passedCheck(resp'.templateId, resp'.month,
                                      resp'.year) :
                  /\ pending'[s].op = "generate"
                  /\ \E k \in DOMAIN pending'[s].toCreate :
                       entryKey(pending'[s].toCreate[k])
                         = entryKey(entries'[i])]_vars

\* C25 witness: the second of two overlapping calls has just inserted, and
\* the store holds two entries of the same key, both created today, on a
\* day that lies inside the window of the existing-entries query.
C25_Witness ==
  /\ generateInsert(resp)
  /\ busy = {}
  /\ onOrAfter(now, startDate(resp.year, resp.month))
  /\ onOrBefore(now, endDate(resp.year, resp.month))
  /\ \E i, j \in DOMAIN entries :
       /\ i < j
       /\ entryKey(entries[i]) = entryKey(entries[j])
       /\ entries[i].kpiTemplateId = resp.templateId
       /\ entries[i].month = resp.month
       /\ entries[i].year = resp.year
       /\ entries[i].createdAt = now
       /\ entries[j].createdAt = now

\* the submitValues calls in flight (past their read) addressed to an entry
submitsInFlight(id) ==
  {s \in Slots : pending[s].op = "submit" /\ pending[s].entryId = id}

\* C26: whatever calls are in flight, the write of a submitValues call
\* leaves its entry holding the values of that submission alone, the total
\* of those values and status initiated, with nothing kept of what another
\* submission wrote before; it changes no other entry and no other call in
\* flight.  The final state of an entry is that of the last write to it.
C26_LastWriterWinsWhole ==
  [][submitWrite(resp')
     => LET id == resp'.entryId
            t == entries[id].kpiTemplateId
            own == validateAndCalculateScores(resp'.values,
                                              Templates[t].template)
        IN /\ own.ok
           /\ entries'[id] = [entries[id] EXCEPT
                                !.values = own.values,
                                !.totalScore = scoreSum(own.values,
                                                        DOMAIN own.values),
                                !.status = "initiated"]
           /\ \A i \in DOMAIN entries : i # id => entries'[i] = entries[i]
           /\ Len(entries') = Len(entries)
           /\ \A s \in Slots :
                pending'[s] # pending[s]
                => /\ pending[s].op = "submit"
                   /\ pending[s].entryId = id
                   /\ pending[s].values = resp'.values
                   /\ pending'[s] = Idle]_vars

\* C26 witness: of two submissions to the same entry with different values,
\* both past their read, the first has just written and the second is
\* still to write; a submission to another entry would be in flight alike.
C26_Witness ==
  /\ submitWrite(resp)
  /\ \E s \in submitsInFlight(resp.entryId) :
       /\ pending[s].values # resp.values
       /\ pending[s].totalScore # entries[resp.entryId].totalScore
  /\ entries[resp.entryId].status = "initiated"

\* the step just taken is the return of a call that has written to the
\* entry store
mutated(r) ==
  /\ r.op \in {"submit", "generate", "final"}
  /\ r.outcome = "ok"

\* the step just taken has sent a record to the audit sink
audited(r) == "audit" \in DOMAIN r

\* C27: the return of every successful submitValues, generateDefaultEntries
\* and generateFinalReports call sends a record to the audit sink, and a
\* call that fails sends none.
C27_EveryMutationAudited ==
  /\ (resp.op # "none" /\ mutated(resp)) => audited(resp)
  /\ (resp.op # "none" /\ resp.outcome = "error") => ~audited(resp)

\* the ids of the entries one run of the entries job creates in an empty
\* store
RECURSIVE sweepCreates(_)
sweepCreates(templates) ==
  IF templates = <<>> THEN 0
  ELSE Len(entriesToCreate(
             filterExcludedMembers(
               getMembers(Templates[Head(templates)].departmentSlug,
                          Templates[Head(templates)].role)),
             Head(templates), 1, StartYear, "system"))
       + sweepCreates(Tail(templates))

SweepEntryIds == 1..sweepCreates(TemplateList)

\* the step just taken is the start of a job
sweepStarted(r, job) ==
  r.op = "sweep" /\ r.step = "start" /\ r.job = job

\* C28: with both jobs firing on schedule, the entries job creates its
\* entries for the month and year of the day it runs, and the reports job
\* of the first day of a month targets the month before, December of the
\* year before when it runs in January, and asks generateFinalReports for
\* that period for every template; every entry the entries job has created
\* comes to be in status generated and stays so, as long as the process
\* stays up; and no submitValues call succeeds on an entry that is in
\* status generated.
C28_ScheduledSealing ==
  /\ [][/\ sweepStarted(resp', "reports")
           => /\ sweep'.month = monthsBefore(now.m, now.y, 1).month
              /\ sweep'.year = monthsBefore(now.m, now.y, 1).year
              /\ sweep'.todo = TemplateList
        /\ sweepStarted(resp', "entries")
           => /\ sweep'.month = now.m
              /\ sweep'.year = now.y
              /\ sweep'.todo = TemplateList
        /\ (resp'.op # "none" /\ "by" \in DOMAIN resp')
           => /\ resp'.month = sweep.month
              /\ resp'.year = sweep.year
              /\ resp'.templateId = Head(sweep.todo)
        /\ Len(entries') > Len(entries)
           => \A i \in (Len(entries) + 1)..Len(entries') :
                /\ entries'[i].month = now.m
                /\ entries'[i].year = now.y
                /\ entries'[i].status = "created"
        /\ submitWrite(resp')
           => entries[resp'.entryId].status # "generated"]_vars
  /\ \A i \in SweepEntryIds :
       (i \in DOMAIN entries)
       ~> (\/ (i \in DOMAIN entries /\ entries[i].status = "generated")
           \/ ~serving)

\* a submitValues call has just read an entry that is not sealed and whose
\* period lies before the wall-clock month, the actor being authorized and
\* the values valid for the entry's template
staleSubmit(r) ==
  /\ submitRead(r)
  /\ r.entryId \in DOMAIN entries
  /\ LET entry == entries[r.entryId]
     IN /\ entry.status # "generated"
        /\ beforeNow([month |-> entry.month, year |-> entry.year])
        /\ authorized(r.updatedBy, entry)
        /\ validateAndCalculateScores(
             r.values, Templates[entry.kpiTemplateId].template).ok

\* C29 (as amended): an entry that was never sealed is not editable once
\* the wall clock has moved past its period: a submitValues call made then,
\* by an authorized actor and with valid values, fails with status 400
\* (title 'Update Period Expired') and changes nothing.  The passing of time
\* alone changes no entry (no expiry, no sealing), and the entry stays
\* open to generateFinalReports, which finds it whatever the date.
C29_StaleEntryLocked ==
  [][/\ (/\ submitRead(resp')
         /\ resp'.entryId \in DOMAIN entries
         /\ entries[resp'.entryId].status # "generated"
         /\ beforeNow([month |-> entries[resp'.entryId].month,
                       year |-> entries[resp'.entryId].year]))
        => /\ threw(resp', HttpBadRequest, "Update Period Expired")
           /\ entries' = entries
           /\ pending' = pending
     /\ now' # now => entries' = entries
     /\ (/\ finalFind(resp')
         /\ unsealedOf(resp'.templateId, resp'.month, resp'.year) # {})
        => /\ resp'.outcome = "pending"
           /\ \E s \in Slots :
                /\ pending'[s].op = "final"
                /\ pending'[s].ids
                     = unsealedOf(resp'.templateId, resp'.month, resp'.year)]_vars

\* C29 witness: in January a submission of valid values by an administrator
\* to an entry of December that was never sealed has just been rejected.
C29_Witness ==
  /\ staleSubmit(resp)
  /\ threw(resp, HttpBadRequest, "Update Period Expired")
  /\ now.m = 1
  /\ entries[resp.entryId].month = 12
  /\ resp.updatedBy = "u4"

\* C29 as stated: such a call still succeeds.
C29_Original ==
  staleSubmit(resp) => resp.outcome = "pending"

\* the step just taken is a manual trigger that passed its validation
triggered(r, op) ==
  /\ r.op = op
  /\ "templateId" \in DOMAIN r
  /\ r.month \in 1..12
  /\ r.year \in MinTriggerYear..MaxTriggerYear

\* C30: a manual trigger for a valid (template, month, year) does what the
\* batch operation the scheduled job calls does from the same state: for
\* the entries, it throws the error generateDefaultEntries throws or goes on
\* to insert the entries it prepares; for the reports, it throws NotFound
\* when no entry is open or goes on to seal the open entries.
C30_TriggersDelegate ==
  [][/\ triggered(resp', "triggerEntries")
        => LET out == generateDefaultOutcome(resp'.templateId, resp'.month,
                                             resp'.year, "system")
           IN IF out.ok
              THEN /\ resp'.outcome = "pending"
                   /\ \E s \in Slots :
                        /\ pending'[s].op = "generate"
                        /\ pending'[s].toCreate = out.toCreate
              ELSE /\ resp'.outcome = "error"
                   /\ resp'.status = out.status
                   /\ entries' = entries
     /\ triggered(resp', "triggerReports")
        => LET found == openEntries(resp'.templateId, resp'.month,
                                    resp'.year)
           IN IF found = {}
              THEN /\ resp'.outcome = "error"
                   /\ resp'.status = HttpNotFound
                   /\ entries' = entries
              ELSE /\ resp'.outcome = "pending"
                   /\ \E s \in Slots :
                        /\ pending'[s].op = "final"
                        /\ pending'[s].ids = found]_vars
====
